---------------------------- MODULE Spec2Model ----------------------------
(***************************************************************************)
(* Inventory tracker: the record store (items and bins), the request       *)
(* handlers that guard bin mutations, the sold transition, and the         *)
(* spreadsheet import pipeline.                                            *)
(*                                                                         *)
(* Text is modelled as a sequence of one-character strings, so that        *)
(* toLowerCase, trim, split and replace are computed character by          *)
(* character.  A JSON object is a record whose DOMAIN is the set of keys   *)
(* present.  A nullable column is None (<<>>) or Some(v) (<<v>>).          *)
(*                                                                         *)
(* The six optional free-text item columns brand, size, color, category,   *)
(* condition and notes are copied by every handler exactly as price is and *)
(* are read by none of the modelled guards; price stands for them.         *)
(***************************************************************************)
EXTENDS Integers, Sequences, FiniteSets, TLC

VARIABLES
    items,      \* MemStorage.items : id -> Item
    bins,       \* MemStorage.bins  : id -> Bin
    nextItemId, \* stands for randomUUID(): ids are never reused
    nextBinId,
    now,        \* the clock new Date() reads
    req,        \* the request handled by the last step
    res,        \* the response it sent: [status, body]
    pend        \* handlers suspended at an await between two store calls

vars == <<items, bins, nextItemId, nextBinId, now, req, res, pend>>

(***************************************************************************)
(* Bounds of the model.                                                    *)
(***************************************************************************)
MaxBinIds == 2       \* bins ever created by POST /api/bins
MaxPlacedIds == 2    \* items ever created while bins are being mutated
MaxSoldIds == 1      \* items ever created while the sold transition is explored
MaxClock == 1        \* readings of the clock
MaxUploadIds == 1    \* item ids allotted before the last upload that creates items
MaxDataLines == 3    \* lines after the header line of a generated delimited file
MaxHeaders == 2      \* columns of a header list handed to mapHeaders
MaxCsvLines == 3     \* lines of a text handed to parseCSV
MaxSheetRows == 6    \* rows of a worksheet handed to parseSpreadsheet
MaxExportIds == 2    \* item ids allotted before exports
MaxBinNames == 3     \* bins handed to getAllBins
MaxRequiredIds == 2  \* item ids allotted in SpecRequired
MaxStored == 2       \* records in the store of a lookup call
MaxImportIds == 2    \* item ids allotted before the last import into a filled store

(***************************************************************************)
(* Text.                                                                   *)
(***************************************************************************)
None == <<>>
Some(v) == <<v>>

EmptyObject == [k \in {} |-> k]

UpperChars == <<"A","B","C","D","E","F","G","H","I","J","K","L","M",
                "N","O","P","Q","R","S","T","U","V","W","X","Y","Z">>
LowerChars == <<"a","b","c","d","e","f","g","h","i","j","k","l","m",
                "n","o","p","q","r","s","t","u","v","w","x","y","z">>
DigitChars == <<"0","1","2","3","4","5","6","7","8","9">>

\* the lower-case letter of each upper-case letter
LowerOf ==
    [c \in {UpperChars[i] : i \in 1..26} |->
        LowerChars[CHOOSE i \in 1..26 : UpperChars[i] = c]]

ToLowerChar(c) == IF c \in DOMAIN LowerOf THEN LowerOf[c] ELSE c

\* String.prototype.toLowerCase
ToLowerCase(s) == [i \in 1..Len(s) |-> ToLowerChar(s[i])]

\* Number -> decimal text, as a template literal prints it
RECURSIVE NatToString(_)
NatToString(n) ==
    IF n < 10 THEN <<DigitChars[n + 1]>>
    ELSE NatToString(n \div 10) \o <<DigitChars[(n % 10) + 1]>>

Str_Bin == <<"B","i","n","-">>
Str_bin == <<"b","i","n","-">>

(***************************************************************************)
(* MemStorage                                                              *)
(***************************************************************************)

\* a mutant of getItemsByBin: strict equality instead of the lower-cased one
GetItemsByBinCaseSensitive(its, binLocation) ==
    {id \in DOMAIN its : its[id].binLocation = binLocation}

\* getItemsByBin: the ids of the items whose binLocation matches, ignoring case
GetItemsByBin(its, binLocation) ==
    LET wanted == ToLowerCase(binLocation) IN
    {id \in DOMAIN its : ToLowerCase(its[id].binLocation) = wanted}

\* a mutant of getBinByName: strict equality
GetBinByNameCaseSensitive(bs, name) ==
    {id \in DOMAIN bs : bs[id].name = name}

\* getBinByName: the ids find() may return (at most the first in Map order;
\* the handlers only test for presence and compare the id)
GetBinByName(bs, name) ==
    LET wanted == ToLowerCase(name) IN
    {id \in DOMAIN bs : ToLowerCase(bs[id].name) = wanted}

\* the bin find() returns: Map iteration is insertion order, ids grow with it
FirstBinByName(bs, name) ==
    LET found == GetBinByName(bs, name) IN
    CHOOSE id \in found : \A other \in found : id <= other

\* object spread {...existing, ...updates}: the keys present in updates win
Spread(existing, updates) ==
    [k \in DOMAIN existing \cup DOMAIN updates |->
        IF k \in DOMAIN updates THEN updates[k] ELSE existing[k]]

\* createBin
CreateBinRecord(insertBin, id, t) ==
    Spread(insertBin, [id |-> id, createdAt |-> t, updatedAt |-> t])

\* updateBin
UpdateBinRecord(existingBin, updates, t) ==
    Spread(Spread(existingBin, updates), [updatedAt |-> t])

\* createItem: status, soldDate and soldPrice are forced whatever the body holds
CreateItemRecord(insertItem, id, t) ==
    Spread(insertItem,
           [id |-> id, status |-> "active", soldDate |-> None,
            soldPrice |-> None, createdAt |-> t, updatedAt |-> t])

\* DatabaseStorage.createItem: insert ... values(insertItem) returning; the
\* columns the values leave out take their defaults
DbCreateItemRecord(insertItem, id, t) ==
    Spread([id |-> id, status |-> "active", soldDate |-> None,
            soldPrice |-> None, createdAt |-> t, updatedAt |-> t],
           insertItem)

\* updateItem
UpdateItemRecord(existingItem, updates, t) ==
    Spread(Spread(existingItem, updates), [updatedAt |-> t])

\* soldData.soldPrice || null : absent and the empty string are falsy
SoldPriceOf(soldData) ==
    IF "soldPrice" \in DOMAIN soldData /\ soldData.soldPrice # <<>>
    THEN Some(soldData.soldPrice) ELSE None

\* soldData.soldDate ? new Date(soldData.soldDate) : new Date()
\* (a date text is <<>> when empty, else <<n>>, n the instant it denotes)
SoldDateOf(soldData, t) ==
    IF "soldDate" \in DOMAIN soldData /\ soldData.soldDate # <<>>
    THEN Some(soldData.soldDate[1]) ELSE Some(t)

\* markAsSold
MarkAsSoldRecord(existingItem, soldData, t) ==
    Spread(existingItem,
           [status |-> "sold", soldDate |-> SoldDateOf(soldData, t),
            soldPrice |-> SoldPriceOf(soldData), updatedAt |-> t])

\* Map.set
MapSet(m, id, v) == [k \in DOMAIN m \cup {id} |-> IF k = id THEN v ELSE m[k]]

\* Map.delete
MapDelete(m, id) == [k \in DOMAIN m \ {id} |-> m[k]]

(***************************************************************************)
(* Request schemas (zod).  An object schema strips the keys it does not    *)
(* know and rejects a body that lacks a required key.                      *)
(***************************************************************************)
Restrict(f, S) == [k \in S |-> f[k]]

\* insertItemSchema: the items columns without id, createdAt, updatedAt,
\* soldDate, soldPrice; description and binLocation are notNull
InsertItemKeys == {"description", "binLocation", "category", "price", "status"}
InsertItemRequired == {"description", "binLocation"}

InsertItemSchemaAccepts(body) == InsertItemRequired \subseteq DOMAIN body
InsertItemSchemaParse(body) == Restrict(body, DOMAIN body \cap InsertItemKeys)

\* updateItemSchema = insertItemSchema.partial()
UpdateItemSchemaParse(body) == Restrict(body, DOMAIN body \cap InsertItemKeys)

\* markSoldSchema: soldPrice and soldDate, both optional strings
MarkSoldKeys == {"soldPrice", "soldDate"}
MarkSoldSchemaParse(body) == Restrict(body, DOMAIN body \cap MarkSoldKeys)

\* insertBinSchema / updateBinSchema (shared/schema.ts of the bins table is
\* not among the sources): a bin has a required name and a color
InsertBinKeys == {"name", "color"}
InsertBinSchemaAccepts(body) ==
    InsertBinKeys \subseteq DOMAIN body /\ body.name # <<>>
InsertBinSchemaParse(body) == Restrict(body, DOMAIN body \cap InsertBinKeys)
UpdateBinSchemaAccepts(body) ==
    "name" \in DOMAIN body => body.name # <<>>
UpdateBinSchemaParse(body) == Restrict(body, DOMAIN body \cap InsertBinKeys)

(***************************************************************************)
(* Responses                                                               *)
(***************************************************************************)
Response(status, body) == [status |-> status, body |-> body]
Message(m) == [message |-> m]

BinNotFound == Response(404, Message("Bin not found"))
BinNameExists == Response(400, Message("Bin name already exists"))
InvalidBinData == Response(400, Message("Invalid bin data"))
CannotRenameBin(n) ==
    Response(400,
        [message |-> "Cannot rename bin with existing items. Move items to another bin first.",
         itemCount |-> n])
CannotDeleteBin(n) ==
    Response(400,
        [message |-> "Cannot delete bin with items. Move items to another bin first.",
         itemCount |-> n])
ItemNotFound == Response(404, Message("Item not found"))
InvalidItemData == Response(400, Message("Invalid item data"))
AlreadySold == Response(400, Message("Item is already marked as sold"))
NoContent == Response(204, EmptyObject)

(***************************************************************************)
(* The requests the model issues.                                          *)
(***************************************************************************)
BinIdInputs == 1..MaxBinIds
PlacedIdInputs == 1..MaxPlacedIds
SoldIdInputs == 1..MaxSoldIds

BinNameInputs == {Str_Bin \o <<"1">>, Str_bin \o <<"1">>, Str_Bin \o <<"2">>}
ColorInputs == {"#FF6B6B"}

InsertBinInputs ==
    {[name |-> n, color |-> c] : n \in BinNameInputs, c \in ColorInputs}
        \cup {EmptyObject}

UpdateBinInputs ==
    {[name |-> n] : n \in BinNameInputs} \cup {[color |-> "#FF6B6B"]}

BinLocationInputs == {Str_Bin \o <<"1">>, Str_bin \o <<"1">>}

InsertItemInputs ==
    {[description |-> <<"x">>, binLocation |-> b] : b \in BinLocationInputs}
        \cup {EmptyObject}

InsertOneBinInputs ==
    {[description |-> <<"x">>, binLocation |-> Str_Bin \o <<"1">>],
     [description |-> <<"x">>, binLocation |-> Str_Bin \o <<"1">>,
      status |-> "sold"],
     EmptyObject}

MoveItemInputs == {[binLocation |-> b] : b \in BinLocationInputs}

UpdateItemInputs ==
    {[binLocation |-> Str_Bin \o <<"2">>], [status |-> "active"],
     [status |-> "sold"], [soldPrice |-> <<"9">>]}

MarkSoldInputs ==
    {EmptyObject, [soldPrice |-> <<"5">>], [soldPrice |-> <<>>],
     [soldDate |-> <<0>>], [soldPrice |-> <<"5">>, soldDate |-> <<0>>]}

Request(op, id, body) == [op |-> op, id |-> id, body |-> body]

(***************************************************************************)
(* Bin handlers.  In Spec a handler runs to its response without another   *)
(* request in between.                                                     *)
(***************************************************************************)

\* validatedData.name && validatedData.name !== currentBin.name
NameChanges(validatedData, currentBin) ==
    /\ "name" \in DOMAIN validatedData
    /\ validatedData.name # <<>>
    /\ validatedData.name # currentBin.name

\* existingBin && existingBin.id !== id
NameTaken(bs, id, name) ==
    LET found == GetBinByName(bs, name) IN
    found # {} /\ (CHOOSE b \in found : \A other \in found : b <= other) # id

\* POST /api/bins
CreateBin(body) ==
    /\ req' = Request("POST /api/bins", 0, body)
    /\ UNCHANGED <<items, nextItemId, now, pend>>
    /\ IF ~InsertBinSchemaAccepts(body)
       THEN res' = InvalidBinData /\ UNCHANGED <<bins, nextBinId>>
       ELSE LET validatedData == InsertBinSchemaParse(body)
                bin == CreateBinRecord(validatedData, nextBinId, now) IN
            IF GetBinByName(bins, validatedData.name) # {}
            THEN res' = BinNameExists /\ UNCHANGED <<bins, nextBinId>>
            ELSE /\ bins' = MapSet(bins, nextBinId, bin)
                 /\ nextBinId' = nextBinId + 1
                 /\ res' = Response(201, bin)

\* a mutant of UpdateBin: referencing items block every update
UpdateBinBlockedByItems(id, body) ==
    /\ req' = Request("PATCH /api/bins/:id", id, body)
    /\ UNCHANGED <<items, nextItemId, nextBinId, now, pend>>
    /\ IF ~UpdateBinSchemaAccepts(body)
       THEN res' = InvalidBinData /\ UNCHANGED bins
       ELSE LET validatedData == UpdateBinSchemaParse(body) IN
            IF id \notin DOMAIN bins
            THEN res' = BinNotFound /\ UNCHANGED bins
            ELSE LET currentBin == bins[id]
                     itemsInBin == GetItemsByBin(items, currentBin.name)
                     bin == UpdateBinRecord(bins[id], validatedData, now) IN
                 IF NameChanges(validatedData, currentBin)
                        /\ NameTaken(bins, id, validatedData.name)
                 THEN res' = BinNameExists /\ UNCHANGED bins
                 ELSE IF Cardinality(itemsInBin) > 0
                 THEN /\ res' = CannotRenameBin(Cardinality(itemsInBin))
                      /\ UNCHANGED bins
                 ELSE /\ bins' = MapSet(bins, id, bin)
                      /\ res' = Response(200, bin)

\* PATCH /api/bins/:id
UpdateBin(id, body) ==
    /\ req' = Request("PATCH /api/bins/:id", id, body)
    /\ UNCHANGED <<items, nextItemId, nextBinId, now, pend>>
    /\ IF ~UpdateBinSchemaAccepts(body)
       THEN res' = InvalidBinData /\ UNCHANGED bins
       ELSE LET validatedData == UpdateBinSchemaParse(body) IN
            IF id \notin DOMAIN bins
            THEN res' = BinNotFound /\ UNCHANGED bins
            ELSE LET currentBin == bins[id]
                     itemsInBin == GetItemsByBin(items, currentBin.name)
                     bin == UpdateBinRecord(bins[id], validatedData, now) IN
                 IF NameChanges(validatedData, currentBin)
                        /\ NameTaken(bins, id, validatedData.name)
                 THEN res' = BinNameExists /\ UNCHANGED bins
                 ELSE IF NameChanges(validatedData, currentBin)
                            /\ Cardinality(itemsInBin) > 0
                 THEN /\ res' = CannotRenameBin(Cardinality(itemsInBin))
                      /\ UNCHANGED bins
                 ELSE /\ bins' = MapSet(bins, id, bin)
                      /\ res' = Response(200, bin)

\* a mutant of DeleteBin: the in-use check is missing
DeleteBinUnchecked(id) ==
    /\ req' = Request("DELETE /api/bins/:id", id, EmptyObject)
    /\ UNCHANGED <<items, nextItemId, nextBinId, now, pend>>
    /\ IF id \notin DOMAIN bins
       THEN res' = BinNotFound /\ UNCHANGED bins
       ELSE bins' = MapDelete(bins, id) /\ res' = NoContent

\* DELETE /api/bins/:id
DeleteBin(id) ==
    /\ req' = Request("DELETE /api/bins/:id", id, EmptyObject)
    /\ UNCHANGED <<items, nextItemId, nextBinId, now, pend>>
    /\ IF id \notin DOMAIN bins
       THEN res' = BinNotFound /\ UNCHANGED bins
       ELSE LET existingBin == bins[id]
                itemsInBin == GetItemsByBin(items, existingBin.name) IN
            IF Cardinality(itemsInBin) > 0
            THEN /\ res' = CannotDeleteBin(Cardinality(itemsInBin))
                 /\ UNCHANGED bins
            ELSE /\ bins' = MapDelete(bins, id)
                 /\ res' = NoContent

\* generateDefaultBinsData: the palette, Bin-0 first
DefaultBinCount == 31
DefaultColors ==
    <<"#808080",
      "#FF6B6B", "#4ECDC4", "#45B7D1", "#96CEB4", "#FFEAA7",
      "#DDA0DD", "#FF9FF3", "#54A0FF", "#5F27CD", "#00D2D3",
      "#FF9F43", "#EE5A24", "#0ABDE3", "#00CEC9", "#6C5CE7",
      "#A29BFE", "#FD79A8", "#E17055", "#00B894", "#FDCB6E",
      "#E84393", "#74B9FF", "#81ECEC", "#FAB1A0", "#32CD32",
      "#FF7675", "#9B59B6", "#F39C12", "#E67E22", "#55A3FF">>

\* Array.from({ length: 31 }, (_, index) => ({ name: `Bin-${index}`, color }))
GenerateDefaultBinsData ==
    [i \in 1..DefaultBinCount |->
        [name |-> Str_Bin \o NatToString(i - 1), color |-> DefaultColors[i]]]

\* createMultipleBins: createBin for each, in order
CreateMultipleBins(bs, binList, firstId, t) ==
    [id \in DOMAIN bs \cup (firstId..(firstId + Len(binList) - 1)) |->
        IF id \in DOMAIN bs /\ id < firstId THEN bs[id]
        ELSE CreateBinRecord(binList[id - firstId + 1], id, t)]

\* a mutant of SeedBins: a seed is refused only when 31 bins exist
SeedBinsUnlessFull ==
    /\ req' = Request("POST /api/bins/seed", 0, EmptyObject)
    /\ UNCHANGED <<items, nextItemId, now, pend>>
    /\ IF Cardinality(DOMAIN bins) >= DefaultBinCount
       THEN /\ res' = Response(400,
                  [message |-> "Bins already exist. Clear existing bins first or use individual bin creation.",
                   existingCount |-> Cardinality(DOMAIN bins)])
            /\ UNCHANGED <<bins, nextBinId>>
       ELSE /\ bins' = CreateMultipleBins(bins, GenerateDefaultBinsData,
                                          nextBinId, now)
            /\ nextBinId' = nextBinId + Len(GenerateDefaultBinsData)
            /\ res' = Response(201,
                  [message |-> "Default bins created successfully",
                   count |-> Len(GenerateDefaultBinsData)])

\* POST /api/bins/seed (the 201 body also lists the created bins, which are
\* the store's bins after the step)
SeedBins ==
    /\ req' = Request("POST /api/bins/seed", 0, EmptyObject)
    /\ UNCHANGED <<items, nextItemId, now, pend>>
    /\ IF Cardinality(DOMAIN bins) > 0
       THEN /\ res' = Response(400,
                  [message |-> "Bins already exist. Clear existing bins first or use individual bin creation.",
                   existingCount |-> Cardinality(DOMAIN bins)])
            /\ UNCHANGED <<bins, nextBinId>>
       ELSE /\ bins' = CreateMultipleBins(bins, GenerateDefaultBinsData,
                                          nextBinId, now)
            /\ nextBinId' = nextBinId + Len(GenerateDefaultBinsData)
            /\ res' = Response(201,
                  [message |-> "Default bins created successfully",
                   count |-> Len(GenerateDefaultBinsData)])

(***************************************************************************)
(* Item handlers                                                           *)
(***************************************************************************)

\* POST /api/items
CreateItem(body) ==
    /\ req' = Request("POST /api/items", 0, body)
    /\ UNCHANGED <<bins, nextBinId, now, pend>>
    /\ IF ~InsertItemSchemaAccepts(body)
       THEN res' = InvalidItemData /\ UNCHANGED <<items, nextItemId>>
       ELSE LET item == CreateItemRecord(InsertItemSchemaParse(body),
                                         nextItemId, now) IN
            /\ items' = MapSet(items, nextItemId, item)
            /\ nextItemId' = nextItemId + 1
            /\ res' = Response(201, item)

\* PATCH /api/items/:id
UpdateItem(id, body) ==
    /\ req' = Request("PATCH /api/items/:id", id, body)
    /\ UNCHANGED <<bins, nextBinId, nextItemId, now, pend>>
    /\ IF id \notin DOMAIN items
       THEN res' = ItemNotFound /\ UNCHANGED items
       ELSE LET item == UpdateItemRecord(items[id],
                                         UpdateItemSchemaParse(body), now) IN
            /\ items' = MapSet(items, id, item)
            /\ res' = Response(200, item)

\* DELETE /api/items/:id
DeleteItem(id) ==
    /\ req' = Request("DELETE /api/items/:id", id, EmptyObject)
    /\ UNCHANGED <<bins, nextBinId, nextItemId, now, pend>>
    /\ IF id \notin DOMAIN items
       THEN res' = ItemNotFound /\ UNCHANGED items
       ELSE items' = MapDelete(items, id) /\ res' = NoContent

\* a mutant of MarkSold: the already-sold check is missing
MarkSoldUnchecked(id, body) ==
    /\ req' = Request("PATCH /api/items/:id/sold", id, body)
    /\ UNCHANGED <<bins, nextBinId, nextItemId, now, pend>>
    /\ IF id \notin DOMAIN items
       THEN res' = ItemNotFound /\ UNCHANGED items
       ELSE LET item == MarkAsSoldRecord(items[id],
                                         MarkSoldSchemaParse(body), now) IN
            /\ items' = MapSet(items, id, item)
            /\ res' = Response(200, item)

\* PATCH /api/items/:id/sold
MarkSold(id, body) ==
    /\ req' = Request("PATCH /api/items/:id/sold", id, body)
    /\ UNCHANGED <<bins, nextBinId, nextItemId, now, pend>>
    /\ IF id \notin DOMAIN items
       THEN res' = ItemNotFound /\ UNCHANGED items
       ELSE IF items[id].status = "sold"
       THEN res' = AlreadySold /\ UNCHANGED items
       ELSE LET item == MarkAsSoldRecord(items[id],
                                         MarkSoldSchemaParse(body), now) IN
            /\ items' = MapSet(items, id, item)
            /\ res' = Response(200, item)

\* the clock advances between two requests
Tick ==
    /\ now < MaxClock
    /\ now' = now + 1
    /\ UNCHANGED <<items, bins, nextItemId, nextBinId, req, res, pend>>

(***************************************************************************)
(* Text operations of the import pipeline.                                 *)
(***************************************************************************)
WhiteSpace == {" ", "\t", "\r", "\n"}
AlphaNumeric ==
    {LowerChars[i] : i \in DOMAIN LowerChars}
        \cup {DigitChars[i] : i \in DOMAIN DigitChars}

Min(S) == CHOOSE n \in S : \A other \in S : n <= other
Max(S) == CHOOSE n \in S : \A other \in S : n >= other
Range(f) == {f[x] : x \in DOMAIN f}

\* the members of a set of numbers in increasing order
RECURSIVE Ascending(_)
Ascending(S) ==
    IF S = {} THEN <<>> ELSE <<Min(S)>> \o Ascending(S \ {Min(S)})

RECURSIVE TrimStart(_)
TrimStart(s) ==
    IF s # <<>> /\ Head(s) \in WhiteSpace THEN TrimStart(Tail(s)) ELSE s

RECURSIVE TrimEnd(_)
TrimEnd(s) ==
    IF s # <<>> /\ s[Len(s)] \in WhiteSpace
    THEN TrimEnd(SubSeq(s, 1, Len(s) - 1)) ELSE s

\* String.prototype.trim
Trim(s) == TrimEnd(TrimStart(s))

\* String.prototype.split with a one-character separator
RECURSIVE Split(_, _)
Split(s, separator) ==
    IF \A i \in DOMAIN s : s[i] # separator THEN <<s>>
    ELSE LET at == Min({i \in DOMAIN s : s[i] = separator}) IN
         <<SubSeq(s, 1, at - 1)>>
            \o Split(SubSeq(s, at + 1, Len(s)), separator)

\* Array.prototype.join over texts
RECURSIVE Join(_, _)
Join(list, separator) ==
    IF list = <<>> THEN <<>>
    ELSE IF Len(list) = 1 THEN list[1]
    ELSE list[1] \o separator \o Join(Tail(list), separator)

\* String.prototype.endsWith
EndsWith(s, suffix) ==
    /\ Len(s) >= Len(suffix)
    /\ SubSeq(s, Len(s) - Len(suffix) + 1, Len(s)) = suffix

\* .replace(/"/g, '')
RemoveQuotes(s) == SelectSeq(s, LAMBDA c : c # "\"")

(***************************************************************************)
(* Header mapping.                                                         *)
(***************************************************************************)
COLUMN_MAPPINGS ==
    <<[field |-> "description", required |-> TRUE,
       aliases |-> <<<<"d","e","s","c","r","i","p","t","i","o","n">>,
                     <<"i","t","e","m">>,
                     <<"p","r","o","d","u","c","t">>,
                     <<"n","a","m","e">>,
                     <<"i","t","e","m","_","n","a","m","e">>,
                     <<"p","r","o","d","u","c","t","_","n","a","m","e">>,
                     <<"t","i","t","l","e">>,
                     <<"i","t","e","m","_","d","e","s","c","r","i","p","t","i","o","n">>>>],
      [field |-> "binLocation", required |-> TRUE,
       aliases |-> <<<<"b","i","n","_","l","o","c","a","t","i","o","n">>,
                     <<"b","i","n","l","o","c","a","t","i","o","n">>,
                     <<"b","i","n"," ","l","o","c","a","t","i","o","n">>,
                     <<"b","i","n">>,
                     <<"l","o","c","a","t","i","o","n">>,
                     <<"b","i","n","_","n","a","m","e">>,
                     <<"s","t","o","r","a","g","e">>,
                     <<"s","t","o","r","a","g","e","_","l","o","c","a","t","i","o","n">>>>],
      [field |-> "brand", required |-> FALSE,
       aliases |-> <<<<"b","r","a","n","d">>,
                     <<"m","a","n","u","f","a","c","t","u","r","e","r">>,
                     <<"m","a","k","e">>,
                     <<"c","o","m","p","a","n","y">>>>],
      [field |-> "size", required |-> FALSE,
       aliases |-> <<<<"s","i","z","e">>,
                     <<"s","i","z","i","n","g">>,
                     <<"d","i","m","e","n","s","i","o","n","s">>,
                     <<"m","e","a","s","u","r","e","m","e","n","t">>>>],
      [field |-> "color", required |-> FALSE,
       aliases |-> <<<<"c","o","l","o","r">>,
                     <<"c","o","l","o","u","r">>,
                     <<"s","h","a","d","e">>,
                     <<"h","u","e">>>>],
      [field |-> "category", required |-> FALSE,
       aliases |-> <<<<"c","a","t","e","g","o","r","y">>,
                     <<"t","y","p","e">>,
                     <<"g","r","o","u","p">>,
                     <<"c","l","a","s","s","i","f","i","c","a","t","i","o","n">>,
                     <<"k","i","n","d">>>>],
      [field |-> "condition", required |-> FALSE,
       aliases |-> <<<<"c","o","n","d","i","t","i","o","n">>,
                     <<"q","u","a","l","i","t","y">>,
                     <<"s","t","a","t","e">>,
                     <<"g","r","a","d","e">>,
                     <<"s","t","a","t","u","s">>>>],
      [field |-> "price", required |-> FALSE,
       aliases |-> <<<<"p","r","i","c","e">>,
                     <<"c","o","s","t">>,
                     <<"v","a","l","u","e">>,
                     <<"a","m","o","u","n","t">>,
                     <<"r","e","t","a","i","l">>,
                     <<"r","e","t","a","i","l","_","p","r","i","c","e">>>>],
      [field |-> "notes", required |-> FALSE,
       aliases |-> <<<<"n","o","t","e","s">>,
                     <<"c","o","m","m","e","n","t","s">>,
                     <<"r","e","m","a","r","k","s">>,
                     <<"d","e","s","c","r","i","p","t","i","o","n","_","n","o","t","e","s">>,
                     <<"a","d","d","i","t","i","o","n","a","l","_","i","n","f","o">>,
                     <<"e","x","t","r","a">>,
                     <<"d","e","t","a","i","l","s">>>>]>>

\* a mutant of NormalizeHeader: punctuation is kept
NormalizeHeaderKeepingPunctuation(header) == Trim(ToLowerCase(header))

\* normalizeHeader
NormalizeHeader(header) ==
    SelectSeq(Trim(ToLowerCase(header)), LAMBDA c : c \in AlphaNumeric)

\* normalizeHeader(alias) of every alias of every schema field
NormalizedAliases ==
    [f \in DOMAIN COLUMN_MAPPINGS |->
        [a \in DOMAIN COLUMN_MAPPINGS[f].aliases |->
            NormalizeHeader(COLUMN_MAPPINGS[f].aliases[a])]]

\* normalizedFileHeaders: original and normalized, in file order
NormalizedFileHeaders(fileHeaders) ==
    [i \in DOMAIN fileHeaders |->
        [original |-> fileHeaders[i],
         normalized |-> NormalizeHeader(fileHeaders[i])]]

\* normalizedFileHeaders.find(fh => fh.normalized === normalizedAlias)
MatchingHeader(normalizedFileHeaders, normalizedAlias) ==
    LET hits == {i \in DOMAIN normalizedFileHeaders :
                    normalizedFileHeaders[i].normalized = normalizedAlias} IN
    IF hits = {} THEN None
    ELSE Some(normalizedFileHeaders[Min(hits)].original)

\* a mutant of MatchOf: the first column that matches any alias is taken
MatchOfFirstColumn(normalizedFileHeaders, f) ==
    LET hits == {i \in DOMAIN normalizedFileHeaders :
                    \E a \in DOMAIN NormalizedAliases[f] :
                        normalizedFileHeaders[i].normalized
                            = NormalizedAliases[f][a]} IN
    IF hits = {} THEN None
    ELSE Some(normalizedFileHeaders[Min(hits)].original)

\* the loop over config.aliases, left at the first alias that matches
MatchOf(normalizedFileHeaders, f) ==
    LET found == {a \in DOMAIN NormalizedAliases[f] :
                    \E i \in DOMAIN normalizedFileHeaders :
                        normalizedFileHeaders[i].normalized
                            = NormalizedAliases[f][a]} IN
    IF found = {} THEN None
    ELSE MatchingHeader(normalizedFileHeaders,
                        NormalizedAliases[f][Min(found)])

\* headerMap: schema field -> original header
HeaderMapOf(fileHeaders) ==
    LET normalizedFileHeaders == NormalizedFileHeaders(fileHeaders)
        matches == [f \in DOMAIN COLUMN_MAPPINGS |->
                        MatchOf(normalizedFileHeaders, f)]
        matched == {f \in DOMAIN COLUMN_MAPPINGS : matches[f] # None} IN
    [field \in {COLUMN_MAPPINGS[f].field : f \in matched} |->
        matches[CHOOSE f \in matched : COLUMN_MAPPINGS[f].field = field][1]]

\* a mutant of MissingOf: no field is ever reported missing
MissingNever(headerMap) == <<>>

\* a mutant of MissingOf: optional fields without a match are reported too
MissingIncludingOptional(headerMap) ==
    LET lacking == SelectSeq(COLUMN_MAPPINGS,
                        LAMBDA config : config.field \notin DOMAIN headerMap)
    IN [i \in DOMAIN lacking |-> lacking[i].field]

\* missing: the required schema fields without a match, in schema order
MissingOf(headerMap) ==
    LET lacking == SelectSeq(COLUMN_MAPPINGS,
                        LAMBDA config : /\ config.required
                                        /\ config.field \notin DOMAIN headerMap)
    IN [i \in DOMAIN lacking |-> lacking[i].field]

\* a mutant of UnmappedOf: the headers that match no alias of any field
UnmappedOfUnknown(fileHeaders, headerMap) ==
    SelectSeq(fileHeaders,
        LAMBDA header :
            \A f \in DOMAIN NormalizedAliases :
                NormalizeHeader(header) \notin Range(NormalizedAliases[f]))

\* unmapped: the file headers no schema field took
UnmappedOf(fileHeaders, headerMap) ==
    SelectSeq(fileHeaders, LAMBDA header : header \notin Range(headerMap))

\* mapHeaders
MapHeaders(fileHeaders) ==
    LET headerMap == HeaderMapOf(fileHeaders) IN
    [headerMap |-> headerMap,
     unmapped |-> UnmappedOf(fileHeaders, headerMap),
     missing |-> MissingOf(headerMap)]

(***************************************************************************)
(* Tabular parsers.  A parsed row is a JavaScript object: keys lists its   *)
(* property names in insertion order and get holds their values.           *)
(***************************************************************************)
\* item[header] = ... for the header columns in wanted, left to right
RowObject(headers, values, wanted) ==
    LET firsts == {i \in wanted :
                    \A j \in wanted : j < i => headers[j] # headers[i]}
        order == Ascending(firsts)
        LastOf(header) == Max({i \in wanted : headers[i] = header}) IN
    [keys |-> [k \in DOMAIN order |-> headers[order[k]]],
     get |-> [header \in {headers[i] : i \in wanted} |->
                IF LastOf(header) \in DOMAIN values
                THEN values[LastOf(header)] ELSE <<>>]]

\* line.split(',').map(v => v.trim().replace(/"/g, ''))
CsvCells(line) ==
    LET parts == Split(line, ",") IN
    [i \in DOMAIN parts |-> RemoveQuotes(Trim(parts[i]))]

\* parseCSV
ParseCSV(csvContent) ==
    LET lines == SelectSeq(Split(csvContent, "\n"),
                           LAMBDA line : Trim(line) # <<>>) IN
    IF Len(lines) = 0 THEN <<>>
    ELSE LET headers == CsvCells(lines[1])
             rows == Tail(lines) IN
         [r \in DOMAIN rows |->
            RowObject(headers, CsvCells(rows[r]), DOMAIN headers)]

Str_MasterInventory == <<"M","a","s","t","e","r"," ","I","n","v","e","n","t","o","r","y">>

\* a worksheet cell: the type of its value and String(value)
StringCell(text) == [type |-> "string", text |-> text]
NumberCell(text) == [type |-> "number", text |-> text]
BooleanCell(text) == [type |-> "boolean", text |-> text]

\* the values that cell || '' replaces by '': '', 0, NaN and false
Falsy(cell) ==
    \/ cell.type = "string" /\ cell.text = <<>>
    \/ cell.type = "number" /\ cell.text \in {<<"0">>, <<"N","a","N">>}
    \/ cell.type = "boolean" /\ cell.text = <<"f","a","l","s","e">>

\* String(cell || '').trim()
CellText(cell) == IF Falsy(cell) THEN <<>> ELSE Trim(cell.text)

\* worksheetName: 'Master Inventory' if the workbook has it, else the first
WorksheetName(workbook) ==
    IF "Master Inventory" \in Range(workbook.SheetNames)
    THEN "Master Inventory"
    ELSE IF workbook.SheetNames = <<>> THEN "undefined"
    ELSE workbook.SheetNames[1]

MaxHeaderScan == 5

\* a mutant of HeaderCandidates: the banner cell counts as a header
HeaderCandidatesCountingBanner(jsonData) ==
    {i \in 0..(Min({MaxHeaderScan, Len(jsonData)}) - 1) :
        Len(SelectSeq(jsonData[i + 1],
                      LAMBDA cell : CellText(cell) # <<>>)) >= 2}

\* the 0-based indexes, among the first five rows, of the rows that look
\* like a header row: two or more non-empty cells other than the banner
HeaderCandidates(jsonData) ==
    {i \in 0..(Min({MaxHeaderScan, Len(jsonData)}) - 1) :
        LET potentialHeaders ==
                [c \in DOMAIN jsonData[i + 1] |-> CellText(jsonData[i + 1][c])]
            nonEmptyHeaders ==
                SelectSeq(potentialHeaders,
                          LAMBDA h : h # <<>> /\ h # Str_MasterInventory) IN
        Len(nonEmptyHeaders) >= 2}

HeaderRowIndex(jsonData) ==
    IF HeaderCandidates(jsonData) = {} THEN 0
    ELSE Min(HeaderCandidates(jsonData))

\* the row objects of the rows below the header row
SheetRowsFrom(jsonData, headerRowIndex) ==
    LET headerRow == jsonData[headerRowIndex + 1]
        headers == [c \in DOMAIN headerRow |-> CellText(headerRow[c])]
        dataRows ==
            SelectSeq(SubSeq(jsonData, headerRowIndex + 2, Len(jsonData)),
                LAMBDA row : /\ Len(row) > 0
                             /\ \E c \in DOMAIN row : CellText(row[c]) # <<>>)
    IN [r \in DOMAIN dataRows |->
            RowObject(headers,
                      [c \in DOMAIN dataRows[r] |-> CellText(dataRows[r][c])],
                      {c \in DOMAIN headers : headers[c] # <<>>})]

\* the rows of a worksheet (sheet_to_json with header: 1) as row objects
SheetRows(jsonData) ==
    IF Len(jsonData) = 0 THEN <<>>
    ELSE SheetRowsFrom(jsonData, HeaderRowIndex(jsonData))

\* parseSpreadsheet: XLSX.read throws on a buffer it cannot decode, and a
\* missing worksheet throws; both are rethrown
ParseSpreadsheet(buffer) ==
    IF buffer.kind # "workbook" THEN [threw |-> TRUE]
    ELSE IF WorksheetName(buffer) \notin DOMAIN buffer.Sheets
    THEN [threw |-> TRUE]
    ELSE [threw |-> FALSE,
          rows |-> SheetRows(buffer.Sheets[WorksheetName(buffer)])]

(***************************************************************************)
(* POST /api/items/upload                                                  *)
(***************************************************************************)
AllowedTypes ==
    {"text/csv", "application/vnd.ms-excel",
     "application/vnd.openxmlformats-officedocument.spreadsheetml.sheet",
     "application/vnd.oasis.opendocument.spreadsheet"}
AllowedExtensions ==
    {<<".","c","s","v">>, <<".","x","l","s","x">>, <<".","x","l","s">>,
     <<".","o","d","t">>}

NoFile == [kind |-> "none"]

\* multer's fileFilter
FileFilter(file) ==
    \/ file.mimetype \in AllowedTypes
    \/ \E ext \in AllowedExtensions :
            EndsWith(ToLowerCase(file.originalname), ext)

\* req.file.originalname.toLowerCase().endsWith('.csv')
IsCsvName(file) == EndsWith(ToLowerCase(file.originalname), <<".","c","s","v">>)

\* the parse step of the handler
ParsedData(file) ==
    IF IsCsvName(file)
    THEN [threw |-> FALSE, rows |-> ParseCSV(file.buffer.text)]
    ELSE ParseSpreadsheet(file.buffer)

\* row[headerMap.field] || '' , or '' without a mapping
CellOf(row, headerMap, field) ==
    IF field \in DOMAIN headerMap /\ headerMap[field] \in DOMAIN row.get
    THEN row.get[headerMap[field]] ELSE <<>>

\* itemData; price is undefined rather than ''
ItemData(row, headerMap) ==
    LET text == [description |-> CellOf(row, headerMap, "description"),
                 binLocation |-> CellOf(row, headerMap, "binLocation")] IN
    IF CellOf(row, headerMap, "price") = <<>> THEN text
    ELSE Spread(text, [price |-> CellOf(row, headerMap, "price")])

\* a mutant of RowNumber: the header row is not counted
RowNumberWithoutHeader(index) == index + 1

\* the row number an error string cites: `Row ${index + 2}`
RowNumber(index) == index + 2

Str_Row == <<"R","o","w"," ">>

MissingRequiredFields(index) ==
    Str_Row \o NatToString(RowNumber(index))
        \o <<":", " ",
             "Missing required fields (description and bin_location)">>

InvalidDataFormat(index) ==
    Str_Row \o NatToString(RowNumber(index))
        \o <<":", " ", "Invalid data format - ">>

\* what the row loop does with row number r (index r - 1)
RowVerdict(row, headerMap) ==
    LET itemData == ItemData(row, headerMap) IN
    IF itemData.description = <<>> \/ itemData.binLocation = <<>>
    THEN "missing"
    ELSE IF ~InsertItemSchemaAccepts(itemData) THEN "invalid"
    ELSE "valid"

\* the row loop: the validated items and the error strings, in row order
ProcessRows(parsedData, headerMap) ==
    LET verdict == [r \in DOMAIN parsedData |->
                        RowVerdict(parsedData[r], headerMap)]
        good == Ascending({r \in DOMAIN parsedData : verdict[r] = "valid"})
        bad == Ascending({r \in DOMAIN parsedData : verdict[r] # "valid"}) IN
    [items |-> [k \in DOMAIN good |->
                    InsertItemSchemaParse(
                        ItemData(parsedData[good[k]], headerMap))],
     errors |-> [k \in DOMAIN bad |->
                    IF verdict[bad[k]] = "missing"
                    THEN MissingRequiredFields(bad[k] - 1)
                    ELSE InvalidDataFormat(bad[k] - 1)]]

Rejection(response) ==
    [response |-> response, storeCalls |-> <<>>, errors |-> <<>>]

FileRejected ==
    Response(500, Message(
        "Only CSV, Excel (.xlsx, .xls), and OpenDocument (.odt) files are allowed"))
NoFileUploaded == Response(400, Message("No file uploaded"))
FileEmptyOrInvalid == Response(400, Message("File is empty or invalid"))
UploadFailed ==
    Response(500, [message |-> "Failed to process CSV upload",
                   error |-> "Failed to parse spreadsheet file"])

Pieces(list) == [i \in DOMAIN list |-> <<list[i]>>]

MissingRequiredColumns(mapped, fileHeaders) ==
    Response(400,
        [message |-> <<"Missing required columns: ">>
                        \o Join(Pieces(mapped.missing), <<", ">>),
         details |->
            [missing |-> mapped.missing,
             unmapped |-> IF Len(mapped.unmapped) > 0
                          THEN Some(<<"Ignored columns: ">>
                                    \o Join(mapped.unmapped, <<", ">>))
                          ELSE None,
             availableHeaders |-> fileHeaders]])

\* the handler up to its store call: either the response of a rejection,
\* or the one call storage.createMultipleItems(items) and the row errors.
\* Each step hands its result to the next.
\* a mutant of PlanOfProcessed: without a validated row the store is not
\* called
PlanOfProcessedUnlessEmpty(processed) ==
    IF processed.items = <<>>
    THEN [response |-> Response(400, Message("No valid rows")),
          storeCalls |-> <<>>, errors |-> processed.errors]
    ELSE [response |-> None,
          storeCalls |-> <<[op |-> "createMultipleItems",
                            items |-> processed.items]>>,
          errors |-> processed.errors]

PlanOfProcessed(processed) ==
    [response |-> None,
     storeCalls |-> <<[op |-> "createMultipleItems",
                       items |-> processed.items]>>,
     errors |-> processed.errors]

\* const { headerMap, unmapped, missing } = mapHeaders(fileHeaders) and on
PlanOfMapped(parsedData, mapped) ==
    IF Len(mapped.missing) > 0
    THEN Rejection(MissingRequiredColumns(mapped, parsedData[1].keys))
    ELSE PlanOfProcessed(ProcessRows(parsedData, mapped.headerMap))

\* a mutant of PlanOfParsed: the required-column check comes before the
\* empty check
PlanOfParsedColumnsFirst(parsed) ==
    IF parsed.threw THEN Rejection(UploadFailed)
    ELSE IF Len(parsed.rows) = 0
    THEN Rejection(MissingRequiredColumns(MapHeaders(<<>>), <<>>))
    ELSE PlanOfMapped(parsed.rows, MapHeaders(parsed.rows[1].keys))

\* parsedData = parseCSV(...) or parseSpreadsheet(...) and on
PlanOfParsed(parsed) ==
    IF parsed.threw THEN Rejection(UploadFailed)
    ELSE IF Len(parsed.rows) = 0 THEN Rejection(FileEmptyOrInvalid)
    ELSE PlanOfMapped(parsed.rows, MapHeaders(parsed.rows[1].keys))

UploadPlan(file) ==
    IF file = NoFile THEN Rejection(NoFileUploaded)
    ELSE IF ~FileFilter(file) THEN Rejection(FileRejected)
    ELSE PlanOfParsed(ParsedData(file))

(***************************************************************************)
(* The files the model uploads.  A buffer is the text of a delimited file, *)
(* the worksheets XLSX.read and sheet_to_json({header: 1}) give for a      *)
(* workbook (one row of cell texts per sheet row, blank rows included), or *)
(* bytes XLSX.read cannot decode.                                          *)
(***************************************************************************)
TextBuffer(text) == [kind |-> "text", text |-> text]
Workbook(sheetNames, sheets) ==
    [kind |-> "workbook", SheetNames |-> sheetNames, Sheets |-> sheets]
CorruptBuffer == [kind |-> "corrupt"]
\* bytes that are text and that XLSX.read also reads, as a one-sheet workbook
TextWorkbook(text, jsonData) ==
    [kind |-> "workbook", text |-> text, SheetNames |-> <<"Sheet1">>,
     Sheets |-> [name \in {"Sheet1"} |-> jsonData]]

File(originalname, mimetype, buffer) ==
    [kind |-> "file", originalname |-> originalname, mimetype |-> mimetype,
     buffer |-> buffer]

\* the sequences over S of length at most n
SeqsUpTo(S, n) == UNION {[1..k -> S] : k \in 0..n}

CsvFile(lines) ==
    File(<<"a",".","c","s","v">>, "text/csv", TextBuffer(Join(lines, <<"\n">>)))

Line_item_bin == <<"i","t","e","m",",","b","i","n">>
Line_bin_Item == <<"b","i","n",","," ","I","t","e","m">>
Line_name_x == <<"n","a","m","e",",","x">>
Line_x == <<"x">>
Line_a_B == <<"a",",","B">>
Line_noDescription == <<",","B">>
Line_blank == <<>>
Line_B_quoted_a == <<"B",",","\"","a","\"">>
Line_B == <<"B">>
Line_a_Bin1 == <<"a",",">> \o Str_Bin \o <<"1">>

CsvInputs ==
    {CsvFile(<<Line_item_bin>> \o rows) :
        rows \in SeqsUpTo({Line_a_B, Line_noDescription, Line_blank},
                          MaxDataLines)}
    \cup {CsvFile(<<Line_bin_Item>> \o rows) :
        rows \in SeqsUpTo({Line_B_quoted_a, Line_B}, 2)}
    \cup {CsvFile(<<header>> \o rows) :
        header \in {Line_name_x, Line_x},
        rows \in {<<>>, <<Line_a_B>>}}
    \cup {CsvFile(<<Line_blank, Line_item_bin>> \o rows) :
        rows \in SeqsUpTo({Line_a_B, Line_noDescription, Line_blank}, 1)}
    \cup {CsvFile(<<Line_item_bin, Line_a_Bin1>>),
          CsvFile(<<>>), CsvFile(<<<<" ">>, Line_blank>>),
          CsvFile(<<<<"i","t","e","m",",","b","i","n">> \o <<"\r">>, <<",","B">> \o <<"\r">>,
                    <<"a",",","B">> \o <<"\r">>>>),
          File(<<"A",".","C","S","V">>, "application/octet-stream",
               TextBuffer(Join(<<Line_item_bin, Line_a_B>>, <<"\n">>)))}

Row_banner == <<StringCell(Str_MasterInventory)>>
Row_item_bin == <<StringCell(<<"i","t","e","m">>), StringCell(<<"b","i","n">>)>>
Row_a_B == <<StringCell(<<"a">>), StringCell(<<"B">>)>>
Row_noDescription == <<StringCell(<<>>), StringCell(<<"B">>)>>
Row_blank == <<>>
Row_x_y == <<StringCell(<<"x">>), StringCell(<<"y">>)>>

SheetInputs ==
    {<<>>,
     <<Row_banner>>,
     <<Row_item_bin, Row_a_B>>,
     <<Row_item_bin, Row_noDescription, Row_a_B, Row_noDescription>>,
     <<Row_banner, Row_item_bin, Row_a_B, Row_noDescription>>,
     <<Row_item_bin, Row_blank, Row_noDescription>>,
     <<Row_x_y, Row_a_B>>}

Mime_xlsx == "application/vnd.openxmlformats-officedocument.spreadsheetml.sheet"

WorkbookInputs ==
    {File(<<"a",".","x","l","s","x">>, "application/octet-stream",
          Workbook(<<"Sheet1">>, [name \in {"Sheet1"} |-> jsonData])) :
        jsonData \in SheetInputs}
    \cup {File(<<"a">>, Mime_xlsx,
               Workbook(<<"Sheet1", "Master Inventory">>,
                        [name \in {"Sheet1", "Master Inventory"} |->
                            IF name = "Sheet1" THEN <<Row_x_y, Row_a_B>>
                            ELSE <<Row_item_bin, Row_a_B>>])),
          File(<<"a",".","x","l","s">>, "application/vnd.ms-excel",
               Workbook(<<>>, EmptyObject)),
          File(<<"a",".","x","l","s","x">>, Mime_xlsx, CorruptBuffer)}

\* delimited text declared as text/csv under a name that does not end in
\* .csv: once bytes XLSX.read cannot decode, once bytes it reads as a sheet
TypedCsvInputs ==
    {File(<<"a",".","t","x","t">>, "text/csv",
          TextBuffer(Join(<<Line_item_bin, Line_a_B>>, <<"\n">>))),
     File(<<"a",".","t","x","t">>, "text/csv",
          TextWorkbook(Join(<<Str_MasterInventory, Line_item_bin, Line_a_B>>,
                            <<"\n">>),
                       <<Row_banner, Row_item_bin, Row_a_B>>))}

UploadInputs ==
    CsvInputs \cup WorkbookInputs \cup TypedCsvInputs
        \cup {NoFile, File(<<"a",".","t","x","t">>, "text/plain", TextBuffer(<<"a",",","B">>))}

\* the parse step and the handler's plan for each file the model uploads
ParsedDataOf == [file \in UploadInputs \ {NoFile} |-> ParsedData(file)]
UploadPlanOf == [file \in UploadInputs |-> UploadPlan(file)]

\* createMultipleItems: createItem for each, in order
CreateMultipleItems(itemList, firstId, t) ==
    [i \in DOMAIN itemList |-> CreateItemRecord(itemList[i], firstId + i - 1, t)]

\* a mutant of the bulk create: the created items replace the store
StoreAndAnswerReplacing(itemList, errors) ==
    LET createdItems == CreateMultipleItems(itemList, nextItemId, now) IN
    /\ items' = [id \in {createdItems[i].id : i \in DOMAIN createdItems}
                    |-> createdItems[id - nextItemId + 1]]
    /\ nextItemId' = nextItemId + Len(itemList)
    /\ res' = Response(200,
                [success |-> TRUE,
                 created |-> Len(createdItems),
                 errors |-> Len(errors),
                 errorDetails |-> errors])

\* const createdItems = await storage.createMultipleItems(items); res.json
StoreAndAnswer(itemList, errors) ==
    LET createdItems == CreateMultipleItems(itemList, nextItemId, now) IN
    /\ items' = [id \in DOMAIN items
                        \cup {createdItems[i].id : i \in DOMAIN createdItems}
                    |-> IF id \in DOMAIN items THEN items[id]
                        ELSE createdItems[id - nextItemId + 1]]
    /\ nextItemId' = nextItemId + Len(itemList)
    /\ res' = Response(200,
                [success |-> TRUE,
                 created |-> Len(createdItems),
                 errors |-> Len(errors),
                 errorDetails |-> errors])

Carry(plan) ==
    IF plan.storeCalls = <<>>
    THEN res' = plan.response /\ UNCHANGED <<items, nextItemId>>
    ELSE StoreAndAnswer(plan.storeCalls[1].items, plan.errors)

\* POST /api/items/upload
Upload(file) ==
    /\ req' = Request("POST /api/items/upload", 0, file)
    /\ UNCHANGED <<bins, nextBinId, now, pend>>
    /\ Carry(UploadPlanOf[file])

(***************************************************************************)
(* The store after construction.                                           *)
(***************************************************************************)
Init ==
    /\ items = EmptyObject
    /\ bins = EmptyObject
    /\ nextItemId = 1
    /\ nextBinId = 1
    /\ now = 0
    /\ req = Request("none", 0, EmptyObject)
    /\ res = Response(0, EmptyObject)
    /\ pend = <<>>

\* a request that allots ids is issued only while ids are left under the bound
Capped(nextId, nextIdAfter, max) == nextIdAfter = nextId \/ nextId <= max

(***************************************************************************)
(* SpecBins: bin requests and the requests that place, move and remove     *)
(* items, one after the other.  The guards of the bin handlers read        *)
(* bins[*].name and items[*].binLocation only, so the sold transition and  *)
(* the clock are left to SpecItems.                                        *)
(***************************************************************************)
BinRequests ==
    \/ \E body \in InsertBinInputs :
            CreateBin(body) /\ Capped(nextBinId, nextBinId', MaxBinIds)
    \/ SeedBins
    \/ \E id \in BinIdInputs, body \in UpdateBinInputs : UpdateBin(id, body)
    \/ \E id \in BinIdInputs : DeleteBin(id)

PlacementRequests ==
    \/ \E body \in InsertItemInputs :
            CreateItem(body) /\ Capped(nextItemId, nextItemId', MaxPlacedIds)
    \/ \E id \in PlacedIdInputs, body \in MoveItemInputs : UpdateItem(id, body)
    \/ \E id \in PlacedIdInputs : DeleteItem(id)

NextBins == BinRequests \/ PlacementRequests
SpecBins == Init /\ [][NextBins]_vars

(***************************************************************************)
(* SpecItems: every item request, and the clock.  No item handler reads    *)
(* the bins.                                                               *)
(***************************************************************************)
ItemRequests ==
    \/ \E body \in InsertOneBinInputs :
            CreateItem(body) /\ Capped(nextItemId, nextItemId', MaxSoldIds)
    \/ \E id \in SoldIdInputs, body \in UpdateItemInputs : UpdateItem(id, body)
    \/ \E id \in SoldIdInputs : DeleteItem(id)
    \/ \E id \in SoldIdInputs, body \in MarkSoldInputs : MarkSold(id, body)

NextItems == ItemRequests \/ Tick
SpecItems == Init /\ [][NextItems]_vars

(***************************************************************************)
(* SpecRace: the bin PATCH and DELETE handlers step by step.  Each await   *)
(* of a store call is a point where another request's handler may run, so  *)
(* a handler is one action per store call and pend holds what it keeps in  *)
(* its local variables across the awaits.  The item requests and the       *)
(* import make one store write each and run between any two of those       *)
(* steps.  A handler that has responded stays in pend until the next bin   *)
(* request arrives.  itemsRead is a history field: the item store as it    *)
(* was when getItemsByBin read it.                                         *)
(***************************************************************************)
Suspended(request, pc, bin, validatedData, itemsRead) ==
    [request |-> request, pc |-> pc, bin |-> bin,
     validatedData |-> validatedData, itemsRead |-> itemsRead]

Responded(p) == [p EXCEPT !.pc = "responded"]

NoneInFlight == IF pend = <<>> THEN TRUE ELSE pend[1].pc = "responded"

At(op, pc) ==
    /\ pend # <<>>
    /\ pend[1].request.op = op
    /\ pend[1].pc = pc

\* DELETE /api/bins/:id: await storage.getBinById(id)
DeleteBinGetBinById(id) ==
    LET request == Request("DELETE /api/bins/:id", id, EmptyObject) IN
    /\ NoneInFlight
    /\ req' = request
    /\ UNCHANGED <<items, bins, nextItemId, nextBinId, now>>
    /\ IF id \notin DOMAIN bins
       THEN res' = BinNotFound /\ pend' = <<>>
       ELSE /\ pend' = <<Suspended(request, "getItemsByBin", bins[id],
                                   EmptyObject, None)>>
            /\ UNCHANGED res

\* a mutant of DeleteBinGetItemsByBin: the result of the read is not looked at
DeleteBinGetItemsByBinIgnored ==
    /\ At("DELETE /api/bins/:id", "getItemsByBin")
    /\ UNCHANGED <<items, bins, nextItemId, nextBinId, now, req, res>>
    /\ pend' = <<[pend[1] EXCEPT !.pc = "deleteBin",
                                 !.itemsRead = Some(items)]>>

\* DELETE /api/bins/:id: await storage.getItemsByBin(existingBin.name)
DeleteBinGetItemsByBin ==
    /\ At("DELETE /api/bins/:id", "getItemsByBin")
    /\ UNCHANGED <<items, bins, nextItemId, nextBinId, now>>
    /\ LET existingBin == pend[1].bin
           itemsInBin == GetItemsByBin(items, existingBin.name)
           read == [pend[1] EXCEPT !.itemsRead = Some(items)] IN
       IF Cardinality(itemsInBin) > 0
       THEN /\ res' = CannotDeleteBin(Cardinality(itemsInBin))
            /\ req' = pend[1].request
            /\ pend' = <<Responded(read)>>
       ELSE /\ pend' = <<[read EXCEPT !.pc = "deleteBin"]>>
            /\ UNCHANGED <<req, res>>

\* DELETE /api/bins/:id: await storage.deleteBin(id)
DeleteBinDeleteBin ==
    /\ At("DELETE /api/bins/:id", "deleteBin")
    /\ UNCHANGED <<items, nextItemId, nextBinId, now>>
    /\ req' = pend[1].request
    /\ pend' = <<Responded(pend[1])>>
    /\ LET id == pend[1].request.id
           deleted == id \in DOMAIN bins IN
       IF ~deleted
       THEN res' = BinNotFound /\ UNCHANGED bins
       ELSE bins' = MapDelete(bins, id) /\ res' = NoContent

\* PATCH /api/bins/:id: updateBinSchema.parse, await storage.getBinById(id)
UpdateBinGetBinById(id, body) ==
    LET request == Request("PATCH /api/bins/:id", id, body) IN
    /\ NoneInFlight
    /\ req' = request
    /\ UNCHANGED <<items, bins, nextItemId, nextBinId, now>>
    /\ IF ~UpdateBinSchemaAccepts(body)
       THEN res' = InvalidBinData /\ pend' = <<>>
       ELSE LET validatedData == UpdateBinSchemaParse(body) IN
            IF id \notin DOMAIN bins
            THEN res' = BinNotFound /\ pend' = <<>>
            ELSE LET currentBin == bins[id] IN
                 /\ pend' = <<Suspended(request,
                                 IF NameChanges(validatedData, currentBin)
                                 THEN "getBinByName" ELSE "updateBin",
                                 currentBin, validatedData, None)>>
                 /\ UNCHANGED res

\* PATCH /api/bins/:id: await storage.getBinByName(validatedData.name)
UpdateBinGetBinByName ==
    /\ At("PATCH /api/bins/:id", "getBinByName")
    /\ UNCHANGED <<items, bins, nextItemId, nextBinId, now>>
    /\ IF NameTaken(bins, pend[1].request.id, pend[1].validatedData.name)
       THEN /\ res' = BinNameExists
            /\ req' = pend[1].request
            /\ pend' = <<Responded(pend[1])>>
       ELSE /\ pend' = <<[pend[1] EXCEPT !.pc = "getItemsByBin"]>>
            /\ UNCHANGED <<req, res>>

\* PATCH /api/bins/:id: await storage.getItemsByBin(currentBin.name)
UpdateBinGetItemsByBin ==
    /\ At("PATCH /api/bins/:id", "getItemsByBin")
    /\ UNCHANGED <<items, bins, nextItemId, nextBinId, now>>
    /\ LET currentBin == pend[1].bin
           itemsInBin == GetItemsByBin(items, currentBin.name)
           read == [pend[1] EXCEPT !.itemsRead = Some(items)] IN
       IF Cardinality(itemsInBin) > 0
       THEN /\ res' = CannotRenameBin(Cardinality(itemsInBin))
            /\ req' = pend[1].request
            /\ pend' = <<Responded(read)>>
       ELSE /\ pend' = <<[read EXCEPT !.pc = "updateBin"]>>
            /\ UNCHANGED <<req, res>>

\* PATCH /api/bins/:id: await storage.updateBin(id, validatedData)
UpdateBinUpdateBin ==
    /\ At("PATCH /api/bins/:id", "updateBin")
    /\ UNCHANGED <<items, nextItemId, nextBinId, now>>
    /\ req' = pend[1].request
    /\ pend' = <<Responded(pend[1])>>
    /\ LET id == pend[1].request.id IN
       IF id \notin DOMAIN bins
       THEN res' = BinNotFound /\ UNCHANGED bins
       ELSE LET bin == UpdateBinRecord(bins[id], pend[1].validatedData, now) IN
            /\ bins' = MapSet(bins, id, bin)
            /\ res' = Response(200, bin)

RenameInputs == {[name |-> Str_Bin \o <<"2">>], [color |-> "#FF6B6B"]}

RaceBinInputs ==
    {[name |-> Str_Bin \o <<n>>, color |-> "#FF6B6B"] : n \in {"1", "2"}}

RaceItemInputs ==
    {[description |-> <<"x">>, binLocation |-> Str_Bin \o <<n>>] :
        n \in {"1", "2"}}

\* a move of an item into Bin-1
RaceMoveInputs == {[binLocation |-> Str_Bin \o <<"1">>]}

RaceUploadInputs == {CsvFile(<<Line_item_bin, Line_a_Bin1>>)}

NextRace ==
    \/ \E body \in RaceBinInputs :
            CreateBin(body) /\ Capped(nextBinId, nextBinId', MaxBinIds)
    \/ \E body \in RaceItemInputs :
            CreateItem(body) /\ Capped(nextItemId, nextItemId', MaxPlacedIds)
    \/ \E id \in PlacedIdInputs, body \in RaceMoveInputs : UpdateItem(id, body)
    \/ \E file \in RaceUploadInputs :
            Upload(file) /\ Capped(nextItemId, nextItemId', MaxPlacedIds)
    \/ \E id \in BinIdInputs : DeleteBinGetBinById(id)
    \/ DeleteBinGetItemsByBin
    \/ DeleteBinDeleteBin
    \/ \E id \in BinIdInputs, body \in RenameInputs :
            UpdateBinGetBinById(id, body)
    \/ UpdateBinGetBinByName
    \/ UpdateBinGetItemsByBin
    \/ UpdateBinUpdateBin

SpecRace == Init /\ [][NextRace]_vars

(***************************************************************************)
(* SpecUpload: uploads, one after the other, into a store that may hold a  *)
(* bin.  An upload reads neither the bins nor the items.                   *)
(***************************************************************************)
OneBinInputs == {[name |-> Str_Bin \o <<"1">>, color |-> "#FF6B6B"]}

NextUpload ==
    \/ \E file \in UploadInputs :
            Upload(file) /\ Capped(nextItemId, nextItemId', MaxUploadIds)
    \/ \E body \in OneBinInputs :
            CreateBin(body) /\ Capped(nextBinId, nextBinId', MaxBinIds)

SpecUpload == Init /\ [][NextUpload]_vars

(***************************************************************************)
(* Export.  The text of a response is a list of pieces.  An id stands for  *)
(* a UUID and an instant for a Date; both are written by their numerals.   *)
(***************************************************************************)
\* Array.from(this.items.values()): a Map lists its values in insertion
\* order, which is the order of the ids
ItemValues(its) ==
    LET ids == Ascending(DOMAIN its) IN [k \in DOMAIN ids |-> its[ids[k]]]

\* Array.prototype.sort by createdAt, latest first; the sort is stable
SortByCreatedAtDesc(list) ==
    LET Before(i, j) == \/ list[i].createdAt > list[j].createdAt
                        \/ list[i].createdAt = list[j].createdAt /\ i < j
        Place(i) == Cardinality({j \in DOMAIN list : Before(j, i)}) + 1 IN
    [p \in DOMAIN list |-> list[CHOOSE i \in DOMAIN list : Place(i) = p]]

\* a mutant of GetAllItems: the order of items created at the same instant
\* turns with the clock
GetAllItemsTiesByClock(its) ==
    LET list == SortByCreatedAtDesc(ItemValues(its)) IN
    IF now % 2 = 0 THEN list
    ELSE [p \in DOMAIN list |->
            LET tied == {q \in DOMAIN list :
                            list[q].createdAt = list[p].createdAt} IN
            list[Min(tied) + Max(tied) - p]]

\* MemStorage.getAllItems
GetAllItems(its) == SortByCreatedAtDesc(ItemValues(its))

\* Object.keys(item): the keys the item has, listed in the order of the
\* columns of the items table
ItemKeyOrder ==
    <<"description", "binLocation", "category", "price", "id", "status",
      "soldDate", "soldPrice", "createdAt", "updatedAt">>
ObjectKeys(item) == SelectSeq(ItemKeyOrder, LAMBDA k : k \in DOMAIN item)

\* (item[header] || '').toString() as pieces
ValueText(item, header) ==
    IF header \notin DOMAIN item THEN <<>>
    ELSE IF header = "id" THEN NatToString(item.id)
    ELSE IF header \in {"createdAt", "updatedAt"} THEN NatToString(item[header])
    ELSE IF header = "status" THEN <<item.status>>
    ELSE IF header = "soldDate"
    THEN (IF item.soldDate = None THEN <<>> ELSE NatToString(item.soldDate[1]))
    ELSE IF header = "soldPrice"
    THEN (IF item.soldPrice = None THEN <<>> ELSE item.soldPrice[1])
    ELSE item[header]

\* .replace(/"/g, '""')
RECURSIVE DoubleQuotes(_)
DoubleQuotes(s) ==
    IF s = <<>> THEN <<>>
    ELSE (IF Head(s) = "\"" THEN <<"\"", "\"">> ELSE <<Head(s)>>)
            \o DoubleQuotes(Tail(s))

\* generateCSV
GenerateCSV(list) ==
    IF Len(list) = 0 THEN <<>>
    ELSE LET headers == ObjectKeys(list[1])
             csvHeaders == Join(Pieces(headers), <<",">>)
             csvRows ==
                [r \in DOMAIN list |->
                    Join([h \in DOMAIN headers |->
                            <<"\"">> \o DoubleQuotes(ValueText(list[r], headers[h]))
                                \o <<"\"">>],
                         <<",">>)]
         IN Join(<<csvHeaders>> \o csvRows, <<"\n">>)

\* the two filters of the export; an absent parameter is the empty text
ExportFilter(list, query) ==
    LET byBin == IF query.bin # <<>>
                 THEN SelectSeq(list, LAMBDA item : item.binLocation = query.bin)
                 ELSE list IN
    IF query.category # <<>>
    THEN SelectSeq(byBin, LAMBDA item : /\ "category" \in DOMAIN item
                                        /\ item.category = query.category)
    ELSE byBin

\* GET /api/export
Export(query) ==
    /\ req' = Request("GET /api/export", 0, query)
    /\ UNCHANGED <<items, bins, nextItemId, nextBinId, now, pend>>
    /\ LET list == ExportFilter(GetAllItems(items), query) IN
       IF query.format = "json"
       THEN res' = Response(200, [type |-> "application/json", content |-> list])
       ELSE res' = Response(200, [type |-> "text/csv",
                                   content |-> GenerateCSV(list)])

(***************************************************************************)
(* SpecExport: item creates, an import of two rows, deletes, the clock and *)
(* exports.                                                                *)
(***************************************************************************)
ExportItemInputs ==
    {[description |-> <<"x">>, binLocation |-> Str_Bin \o <<"1">>],
     [description |-> <<"\"", "y">>, binLocation |-> <<"B">>,
      category |-> <<"c">>]}

ExportUploadInputs == {CsvFile(<<Line_item_bin, Line_a_B, Line_a_B>>)}

ExportQueryInputs ==
    {[format |-> f, bin |-> b, category |-> c] :
        f \in {"", "csv", "json"}, b \in {<<>>, <<"B">>}, c \in {<<>>, <<"c">>}}

NextExport ==
    \/ \E body \in ExportItemInputs :
            CreateItem(body) /\ Capped(nextItemId, nextItemId', MaxExportIds)
    \/ \E file \in ExportUploadInputs :
            Upload(file) /\ Capped(nextItemId, nextItemId', MaxExportIds)
    \/ \E id \in 1..MaxExportIds : DeleteItem(id)
    \/ Tick
    \/ \E query \in ExportQueryInputs : Export(query)

SpecExport == Init /\ [][NextExport]_vars

(***************************************************************************)
(* SpecRequired: item creates and updates whose bodies carry empty texts,  *)
(* and imports with rows that lack a required field.                       *)
(***************************************************************************)
RequiredItemInputs ==
    {[description |-> d, binLocation |-> b] :
        d \in {<<>>, <<"x">>}, b \in {<<>>, Str_Bin \o <<"1">>}}
        \cup {[description |-> <<"x">>], EmptyObject}

RequiredUpdateInputs ==
    {[description |-> <<>>], [binLocation |-> <<>>], [description |-> <<"y">>],
     [price |-> <<"9">>]}

RequiredUploadInputs ==
    {CsvFile(<<Line_item_bin, Line_noDescription, Line_a_B>>),
     CsvFile(<<Line_item_bin, Line_noDescription>>)}

NextRequired ==
    \/ \E body \in RequiredItemInputs :
            CreateItem(body) /\ Capped(nextItemId, nextItemId', MaxRequiredIds)
    \/ \E id \in 1..MaxRequiredIds, body \in RequiredUpdateInputs :
            UpdateItem(id, body)
    \/ \E file \in RequiredUploadInputs :
            Upload(file) /\ Capped(nextItemId, nextItemId', MaxRequiredIds)

SpecRequired == Init /\ [][NextRequired]_vars

(***************************************************************************)
(* SpecRecolor: one bin, items placed in it, the clock, and updates of    *)
(* the bin that keep or change its name.                                   *)
(***************************************************************************)
RecolorInputs ==
    {[color |-> "#4ECDC4"],
     [name |-> Str_Bin \o <<"1">>],
     [name |-> Str_Bin \o <<"1">>, color |-> "#4ECDC4"],
     [name |-> Str_Bin \o <<"2">>],
     EmptyObject}

NextRecolor ==
    \/ \E body \in OneBinInputs :
            CreateBin(body) /\ Capped(nextBinId, nextBinId', MaxBinIds)
    \/ \E body \in InsertItemInputs :
            CreateItem(body) /\ Capped(nextItemId, nextItemId', MaxPlacedIds)
    \/ \E id \in BinIdInputs, body \in RecolorInputs : UpdateBin(id, body)
    \/ Tick

SpecRecolor == Init /\ [][NextRecolor]_vars

(***************************************************************************)
(* SpecMapHeaders: mapHeaders applied to a list of file headers.  The      *)
(* initial state holds the call, the step its return value.                *)
(***************************************************************************)
Header_BinLocation == <<"B","i","n"," ","L","o","c","a","t","i","o","n">>
Header_bin_location == <<"b","i","n","_","l","o","c","a","t","i","o","n">>
Header_BIN_LOCATION == <<"B","I","N","-","L","O","C","A","T","I","O","N">>
Header_item == <<"i","t","e","m">>
Header_description == <<"d","e","s","c","r","i","p","t","i","o","n">>
Header_Item_padded == <<" ","I","t","e","m"," ">>
Header_name == <<"n","a","m","e">>
Header_cost == <<"c","o","s","t">>
Header_x == <<"x">>
Header_empty == <<>>

HeaderInputs ==
    {Header_BinLocation, Header_bin_location, Header_BIN_LOCATION,
     Header_item, Header_description, Header_Item_padded, Header_name,
     Header_cost, Header_x, Header_empty}

HeaderListInputs == SeqsUpTo(HeaderInputs, MaxHeaders)

\* a call that has not returned, and its return
Called == Response(0, EmptyObject)
Returned(value) == Response(1, value)

\* the store after construction and one call of a function
CallInit(calls) ==
    /\ items = EmptyObject
    /\ bins = EmptyObject
    /\ nextItemId = 1
    /\ nextBinId = 1
    /\ now = 0
    /\ req \in calls
    /\ res = Called
    /\ pend = <<>>

InitMapHeaders ==
    CallInit({Request("mapHeaders", 0, fileHeaders) :
                fileHeaders \in HeaderListInputs})

MapHeadersCall ==
    /\ req.op = "mapHeaders"
    /\ res = Called
    /\ res' = Returned(MapHeaders(req.body))
    /\ UNCHANGED <<items, bins, nextItemId, nextBinId, now, req, pend>>

SpecMapHeaders == InitMapHeaders /\ [][MapHeadersCall]_vars

(***************************************************************************)
(* SpecParseCSV: parseCSV applied to the text of a file.                   *)
(***************************************************************************)
Csv_description_bin_location == <<"d","e","s","c","r","i","p","t","i","o","n",",","b","i","n","_","l","o","c","a","t","i","o","n">>
Csv_Shoe_Bin1 == <<"\"">> \o <<"S","h","o","e">> \o <<"\"", ",", "\"">> \o <<"B","i","n","-","1">> \o <<"\"">>
Csv_inner_quote == <<"a", "\"", "b", ",", "c">>
Csv_two_layers == <<"\"", "\"", "a", "\"", "\"", ",", "b">>
Csv_padded == <<" ","a"," ",","," ","b"," ">>
Csv_x == <<"x">>
Csv_spaces == <<" ">>
Csv_blank == <<>>

CsvLineInputs ==
    {Csv_description_bin_location, Csv_Shoe_Bin1, Csv_inner_quote,
     Csv_two_layers, Csv_padded, Csv_x, Csv_spaces, Csv_blank}

CsvContentInputs ==
    {Join(lines, <<"\n">>) : lines \in SeqsUpTo(CsvLineInputs, MaxCsvLines)}

InitParseCSV ==
    CallInit({Request("parseCSV", 0, csvContent) :
                csvContent \in CsvContentInputs})

ParseCSVCall ==
    /\ req.op = "parseCSV"
    /\ res.status = 0
    /\ res' = Returned(ParseCSV(req.body))
    /\ UNCHANGED <<items, bins, nextItemId, nextBinId, now, req, pend>>

SpecParseCSV == InitParseCSV /\ [][ParseCSVCall]_vars

(***************************************************************************)
(* SpecParseSheet: the rows of a worksheet (sheet_to_json with header: 1)  *)
(* turned into row objects by parseSpreadsheet.                            *)
(***************************************************************************)
Row_banner_x == <<StringCell(Str_MasterInventory), StringCell(<<"x">>)>>
Row_zero == <<NumberCell(<<"0">>)>>
Row_false_B == <<BooleanCell(<<"f","a","l","s","e">>), StringCell(<<"B">>)>>

SheetRowInputs ==
    {Row_banner, Row_banner_x, Row_item_bin, Row_blank, Row_zero, Row_false_B}

JsonDataInputs == SeqsUpTo(SheetRowInputs, MaxSheetRows)

InitParseSheet ==
    CallInit({Request("parseSpreadsheet", 0, jsonData) :
                jsonData \in JsonDataInputs})

ParseSheetCall ==
    /\ req.op = "parseSpreadsheet"
    /\ res.status = 0
    /\ res' = Returned(SheetRows(req.body))
    /\ UNCHANGED <<items, bins, nextItemId, nextBinId, now, req, pend>>

SpecParseSheet == InitParseSheet /\ [][ParseSheetCall]_vars

(***************************************************************************)
(* getAllBins of both stores.  The comparators read the names only, so a   *)
(* bin is written by its name.                                             *)
(***************************************************************************)
Digits == {DigitChars[i] : i \in DOMAIN DigitChars}

\* the longest prefix of digits
LeadingDigits(s) ==
    LET stops == {i \in DOMAIN s : s[i] \notin Digits} IN
    IF stops = {} THEN s ELSE SubSeq(s, 1, Min(stops) - 1)

RECURSIVE DigitsToNumber(_)
DigitsToNumber(digits) ==
    IF digits = <<>> THEN 0
    ELSE 10 * DigitsToNumber(SubSeq(digits, 1, Len(digits) - 1))
            + (CHOOSE d \in 0..9 : DigitChars[d + 1] = digits[Len(digits)])

\* parseInt: white space, a sign, digits; None stands for NaN
ParseInt(s) ==
    LET t == TrimStart(s)
        signed == t # <<>> /\ t[1] \in {"-", "+"}
        digits == LeadingDigits(IF signed THEN Tail(t) ELSE t) IN
    IF digits = <<>> THEN None
    ELSE IF signed /\ t[1] = "-" THEN Some(0 - DigitsToNumber(digits))
    ELSE Some(DigitsToNumber(digits))

\* name.match(/Bin-(\d+)/) and parseInt of its group: the leftmost Bin-
\* followed by a digit, None without a match
BinMatch(name) ==
    LET starts == {p \in DOMAIN name :
                    /\ p + 4 <= Len(name)
                    /\ SubSeq(name, p, p + 3) = Str_Bin
                    /\ name[p + 4] \in Digits} IN
    IF starts = {} THEN None
    ELSE Some(DigitsToNumber(
                LeadingDigits(SubSeq(name, Min(starts) + 4, Len(name)))))

\* the collation weight of a character: white space and punctuation before
\* digits before letters, upper and lower case alike
Weight(c) ==
    IF c \in Digits THEN 10 + (CHOOSE d \in 0..9 : DigitChars[d + 1] = c)
    ELSE IF ToLowerChar(c) \in {LowerChars[i] : i \in DOMAIN LowerChars}
    THEN 20 + (CHOOSE i \in DOMAIN LowerChars : LowerChars[i] = ToLowerChar(c))
    ELSE IF c \in WhiteSpace THEN 0 ELSE 1

\* the sign of the first difference of two lists of numbers, a proper
\* prefix coming first
RECURSIVE CompareLists(_, _)
CompareLists(a, b) ==
    IF a = <<>> THEN (IF b = <<>> THEN 0 ELSE 0 - 1)
    ELSE IF b = <<>> THEN 1
    ELSE IF Head(a) < Head(b) THEN 0 - 1
    ELSE IF Head(a) > Head(b) THEN 1
    ELSE CompareLists(Tail(a), Tail(b))

\* String.prototype.localeCompare: by weight, then lower case before upper
LocaleCompare(a, b) ==
    LET primary == CompareLists([i \in DOMAIN a |-> Weight(a[i])],
                                [i \in DOMAIN b |-> Weight(b[i])]) IN
    IF primary # 0 THEN primary
    ELSE CompareLists([i \in DOMAIN a |-> IF a[i] = ToLowerChar(a[i]) THEN 0 ELSE 1],
                      [i \in DOMAIN b |-> IF b[i] = ToLowerChar(b[i]) THEN 0 ELSE 1])

\* the comparator of MemStorage.getAllBins
MemCompareBins(a, b) ==
    IF BinMatch(a) # None /\ BinMatch(b) # None
    THEN BinMatch(a)[1] - BinMatch(b)[1]
    ELSE LocaleCompare(a, b)

\* name.replace('Bin-', ''): the first occurrence is removed
RemoveFirstBin(name) ==
    LET starts == {p \in DOMAIN name :
                    /\ p + 3 <= Len(name)
                    /\ SubSeq(name, p, p + 3) = Str_Bin} IN
    IF starts = {} THEN name
    ELSE SubSeq(name, 1, Min(starts) - 1)
            \o SubSeq(name, Min(starts) + 4, Len(name))

\* parseInt(name.replace('Bin-', '')) || 0
DbBinNumber(name) ==
    IF ParseInt(RemoveFirstBin(name)) = None THEN 0
    ELSE ParseInt(RemoveFirstBin(name))[1]

\* the comparator of DatabaseStorage.getAllBins
DbCompareBins(a, b) == DbBinNumber(a) - DbBinNumber(b)

\* a comparator is consistent on the members of a list
Consistent(list, Compare(_, _)) ==
    \A i, j, k \in DOMAIN list :
        /\ Compare(list[i], list[i]) = 0
        /\ (Compare(list[i], list[j]) < 0) = (Compare(list[j], list[i]) > 0)
        /\ (Compare(list[i], list[j]) <= 0 /\ Compare(list[j], list[k]) <= 0)
                => Compare(list[i], list[k]) <= 0

\* the lists that hold the members of a list, each once
Orders(list) ==
    {[i \in DOMAIN list |-> list[p[i]]] : p \in Permutations(DOMAIN list)}

\* Array.prototype.sort: stable under a consistent comparator, and an order
\* the implementation picks under one that is not
SortOutcomes(list, Compare(_, _)) ==
    IF Consistent(list, Compare)
    THEN LET Before(i, j) == \/ Compare(list[i], list[j]) < 0
                             \/ Compare(list[i], list[j]) = 0 /\ i < j
             Place(i) == Cardinality({j \in DOMAIN list : Before(j, i)}) + 1 IN
         {[p \in DOMAIN list |-> list[CHOOSE i \in DOMAIN list : Place(i) = p]]}
    ELSE Orders(list)

\* MemStorage.getAllBins over the Map's insertion order
MemGetAllBins(names) == SortOutcomes(names, MemCompareBins)

\* DatabaseStorage.getAllBins: select without ORDER BY returns the rows in
\* an order the database picks
DbGetAllBins(names) ==
    UNION {SortOutcomes(rows, DbCompareBins) : rows \in Orders(names)}

Name_Bin2 == <<"B","i","n","-","2">>
Name_Bin10 == <<"B","i","n","-","1","0">>
Name_bin15 == <<"b","i","n","-","1","5">>
Name_Shelf2 == <<"S","h","e","l","f","-","2">>
Name_Shelf10 == <<"S","h","e","l","f","-","1","0">>
Name_Attic == <<"A","t","t","i","c">>

NameInputs ==
    {Name_Bin2, Name_Bin10, Name_bin15, Name_Shelf2, Name_Shelf10, Name_Attic}

\* bins of distinct names in the order they were created
NameListInputs ==
    {names \in SeqsUpTo(NameInputs, MaxBinNames) :
        \A i, j \in DOMAIN names : i # j => names[i] # names[j]}

InitGetAllBins ==
    CallInit({Request("getAllBins", 0, names) : names \in NameListInputs})

GetAllBinsCall ==
    /\ req.op = "getAllBins"
    /\ res.status = 0
    /\ \E mem \in MemGetAllBins(req.body), db \in DbGetAllBins(req.body) :
            res' = Returned([mem |-> mem, db |-> db])
    /\ UNCHANGED <<items, bins, nextItemId, nextBinId, now, req, pend>>

SpecGetAllBins == InitGetAllBins /\ [][GetAllBinsCall]_vars

(***************************************************************************)
(* SpecImport: uploads into a store that holds items and a bin.            *)
(***************************************************************************)
ImportUploadInputs ==
    {CsvFile(<<Line_item_bin, Line_a_B>>),
     CsvFile(<<Line_item_bin, Line_a_B, Line_a_B>>),
     CsvFile(<<Line_item_bin, Line_noDescription, Line_a_B>>),
     CsvFile(<<Line_x, Line_a_B>>)}

NextImport ==
    \/ \E body \in OneBinInputs :
            CreateBin(body) /\ Capped(nextBinId, nextBinId', MaxBinIds)
    \/ \E body \in ExportItemInputs :
            CreateItem(body) /\ Capped(nextItemId, nextItemId', MaxImportIds)
    \/ \E file \in ImportUploadInputs :
            Upload(file) /\ Capped(nextItemId, nextItemId', MaxImportIds)
    \/ Tick

SpecImport == Init /\ [][NextImport]_vars

(***************************************************************************)
(* The lookups of DatabaseStorage.  ilike(column, argument) sends the       *)
(* argument as the pattern of column ILIKE $1: '%' stands for any run of    *)
(* characters, '_' for any one character, and the backslash takes the next  *)
(* character literally.                                                     *)
(***************************************************************************)
RECURSIVE Like(_, _)
Like(text, pattern) ==
    IF pattern = <<>> THEN text = <<>>
    ELSE IF pattern[1] = "%"
         THEN \/ Like(text, Tail(pattern))
              \/ text # <<>> /\ Like(Tail(text), pattern)
    ELSE IF text = <<>> THEN FALSE
    ELSE IF pattern[1] = "_" THEN Like(Tail(text), Tail(pattern))
    ELSE IF pattern[1] = "\\"
         THEN /\ Len(pattern) > 1
              /\ text[1] = pattern[2]
              /\ Like(Tail(text), Tail(Tail(pattern)))
    ELSE text[1] = pattern[1] /\ Like(Tail(text), Tail(pattern))

\* ILIKE: LIKE without regard to case
ILike(text, pattern) == Like(ToLowerCase(text), ToLowerCase(pattern))

\* the pattern ends with a backslash that escapes nothing: the database may
\* reject the query instead of answering it
RECURSIVE EndsWithEscape(_)
EndsWithEscape(pattern) ==
    IF pattern = <<>> THEN FALSE
    ELSE IF pattern[1] = "\\"
         THEN Len(pattern) = 1 \/ EndsWithEscape(Tail(Tail(pattern)))
    ELSE EndsWithEscape(Tail(pattern))

\* the outcomes of a lookup: a value, or an exception
Answered(value) == [thrown |-> FALSE, value |-> value]
Thrown == [thrown |-> TRUE]

\* DatabaseStorage.getItemsByBin: the outcomes of the select
DbGetItemsByBin(its, binLocation) ==
    {Answered({id \in DOMAIN its : ILike(its[id].binLocation, binLocation)})}
        \cup (IF EndsWithEscape(binLocation) THEN {Thrown} ELSE {})

\* DatabaseStorage.getBinByName: the first row of a select without ORDER BY,
\* which is any of the rows that match
DbGetBinByName(bs, name) ==
    LET rows == {id \in DOMAIN bs : ILike(bs[id].name, name)} IN
    (IF rows = {} THEN {Answered(None)} ELSE {Answered(Some(id)) : id \in rows})
        \cup (IF EndsWithEscape(name) THEN {Thrown} ELSE {})

\* MemStorage.getBinByName: what find() returns
MemGetBinByName(bs, name) ==
    IF GetBinByName(bs, name) = {} THEN Answered(None)
    ELSE Answered(Some(FirstBinByName(bs, name)))

Text_ab == <<"a","b">>
Text_AB == <<"A","B">>
Text_a_percent == <<"a","%">>
Text_a_underscore == <<"a","_">>
Text_a_backslash == <<"a","\\">>
Text_percent == <<"%">>
Text_escaped_percent == <<"a","\\","%">>

StoredInputs ==
    {Text_ab, Text_AB, Text_a_percent, Text_a_underscore, Text_a_backslash}

ArgumentInputs ==
    StoredInputs \cup {Text_percent, Text_escaped_percent}

\* the binLocations of the items, or the names of the bins, in the order of
\* their creation
StoredListInputs == SeqsUpTo(StoredInputs, MaxStored)

\* bin names are kept distinct without regard to case by the bin routes
DistinctNameListInputs ==
    {names \in StoredListInputs :
        \A i, j \in DOMAIN names :
            i # j => ToLowerCase(names[i]) # ToLowerCase(names[j])}

InitLookup ==
    CallInit({Request("getItemsByBin", 0, [stored |-> stored, argument |-> argument]) :
                    stored \in StoredListInputs, argument \in ArgumentInputs}
             \cup
             {Request("getBinByName", 0, [stored |-> stored, argument |-> argument]) :
                    stored \in DistinctNameListInputs, argument \in ArgumentInputs})

GetItemsByBinCall ==
    /\ req.op = "getItemsByBin"
    /\ res.status = 0
    /\ LET its == [i \in DOMAIN req.body.stored |->
                        [id |-> i, binLocation |-> req.body.stored[i]]] IN
       \E db \in DbGetItemsByBin(its, req.body.argument) :
            res' = Returned([mem |-> Answered(GetItemsByBin(its, req.body.argument)),
                             db |-> db])
    /\ UNCHANGED <<items, bins, nextItemId, nextBinId, now, req, pend>>

GetBinByNameCall ==
    /\ req.op = "getBinByName"
    /\ res.status = 0
    /\ LET bs == [i \in DOMAIN req.body.stored |->
                        [id |-> i, name |-> req.body.stored[i]]] IN
       \E db \in DbGetBinByName(bs, req.body.argument) :
            res' = Returned([mem |-> MemGetBinByName(bs, req.body.argument),
                             db |-> db])
    /\ UNCHANGED <<items, bins, nextItemId, nextBinId, now, req, pend>>

NextLookup == GetItemsByBinCall \/ GetBinByNameCall
SpecLookup == InitLookup /\ [][NextLookup]_vars

(***************************************************************************)
(* Properties.  The words of a property are defined here on their own and  *)
(* not through the operators of the store.                                 *)
(***************************************************************************)
\* the items that reference a bin name
Referencing(name) ==
    LET lowered == ToLowerCase(name) IN
    {i \in DOMAIN items : ToLowerCase(items[i].binLocation) = lowered}

\* another bin than id owns the name
OwnedByAnother(id, name) ==
    LET lowered == ToLowerCase(name) IN
    \E b \in DOMAIN bins \ {id} : ToLowerCase(bins[b].name) = lowered

\* a rename request for an existing bin that items reference
RenameOfBinInUse(id, body) ==
    /\ UpdateBin(id, body)
    /\ id \in DOMAIN bins
    /\ "name" \in DOMAIN body
    /\ body.name # bins[id].name
    /\ Referencing(bins[id].name) # {}

ReportsCount(response, n) ==
    /\ "itemCount" \in DOMAIN response.body
    /\ response.body.itemCount = n

C2_DeleteBin ==
    [][\A id \in BinIdInputs :
        (DeleteBin(id) /\ id \in DOMAIN bins) =>
            IF Referencing(bins[id].name) = {}
            THEN /\ res'.status = 204
                 /\ DOMAIN bins' = DOMAIN bins \ {id}
                 /\ \A b \in DOMAIN bins' : bins'[b] = bins[b]
                 /\ items' = items
            ELSE /\ res'.status = 400
                 /\ ReportsCount(res', Cardinality(Referencing(bins[id].name)))
                 /\ bins' = bins
                 /\ items' = items]_vars

\* C2's case: a delete was rejected with itemCount 2, the two items spelling
\* the bin's name in different case.
C2_Witness ==
    /\ req.op = "DELETE /api/bins/:id"
    /\ req.id \in DOMAIN bins
    /\ res.status = 400
    /\ ReportsCount(res, 2)
    /\ \E i, j \in Referencing(bins[req.id].name) :
            items[i].binLocation # items[j].binLocation

\* a create or a rename that asks for a name another bin owns
AsksForOwnedName ==
    \/ \E body \in InsertBinInputs :
         /\ CreateBin(body)
         /\ InsertBinSchemaAccepts(body)
         /\ OwnedByAnother(0, body.name)
    \/ \E id \in BinIdInputs, body \in UpdateBinInputs :
         /\ UpdateBin(id, body)
         /\ id \in DOMAIN bins
         /\ "name" \in DOMAIN body
         /\ OwnedByAnother(id, body.name)

NamesUnique ==
    LET lowered == [b \in DOMAIN bins |-> ToLowerCase(bins[b].name)] IN
    Cardinality({lowered[b] : b \in DOMAIN bins}) = Cardinality(DOMAIN bins)

\* C3: after any sequence of bin create, rename, delete and seed requests no
\* two bins have names equal ignoring case, and a create or rename that asks
\* for a name another bin owns is rejected and changes nothing.
C3_UniqueNames ==
    /\ []NamesUnique
    /\ [][AsksForOwnedName =>
            (res'.status = 400 /\ bins' = bins /\ items' = items
                /\ nextBinId' = nextBinId)]_vars

\* C3's case: two bins exist and a create was rejected whose name differs
\* from every stored name but equals one of them ignoring case.
C3_Witness ==
    /\ Cardinality(DOMAIN bins) >= 2
    /\ req.op = "POST /api/bins"
    /\ res = BinNameExists
    /\ \A b \in DOMAIN bins : bins[b].name # req.body.name

\* C4 as stated: an item that is sold stays sold as long as it exists.
C4_SoldIsTerminal ==
    [][\A i \in DOMAIN items \cap DOMAIN items' :
        items[i].status = "sold" => items'[i].status = "sold"]_vars

\* C5 as stated: soldDate and soldPrice are both null when status = active
\* and both present when status = sold.
C5_SoldFieldsIffSold ==
    \A i \in DOMAIN items :
        /\ items[i].status = "active" =>
                (items[i].soldDate = None /\ items[i].soldPrice = None)
        /\ items[i].status = "sold" =>
                (items[i].soldDate # None /\ items[i].soldPrice # None)

\* C6: a mark-as-sold request on an item that is already sold is rejected
\* and leaves the item (its soldDate, soldPrice and updatedAt) unchanged.
C6_SoldAgainRejected ==
    [][\A id \in SoldIdInputs, body \in MarkSoldInputs :
        (MarkSold(id, body) /\ id \in DOMAIN items
            /\ items[id].status = "sold") =>
            (res' = AlreadySold /\ items' = items)]_vars

\* C6's case: a second mark-as-sold, carrying a price, was rejected after the
\* clock advanced past the sale, and the item holds the first sale's values.
C6_Witness ==
    /\ req.op = "PATCH /api/items/:id/sold"
    /\ "soldPrice" \in DOMAIN req.body
    /\ res = AlreadySold
    /\ req.id \in DOMAIN items
    /\ items[req.id].status = "sold"
    /\ items[req.id].soldPrice = None
    /\ items[req.id].soldDate # None
    /\ items[req.id].updatedAt < now

\* the step in which a suspended bin handler p makes its last store call and
\* answers with success
Completes(p) ==
    /\ pend = <<p>>
    /\ p.pc \in {"deleteBin", "updateBin"}
    /\ pend' = <<Responded(p)>>
    /\ res'.status \in {200, 204}

\* C7: the bin delete and rename handlers read the referencing items and
\* apply the mutation in two store calls; a delete or rename that completes
\* while an item references the bin's old name is one where the item store
\* was written between the two calls: whenever the item store at the
\* mutation is the one the check read, no item references the old name.
C7_OrphanOnlyWhenInterleaved ==
    [][\A p \in {pend[i] : i \in DOMAIN pend} :
        (Completes(p) /\ p.itemsRead = Some(items))
            => Referencing(p.bin.name) = {}]_vars

\* a delete has answered 204, the store was written between its check and
\* its deleteBin call, and an item references the name of the deleted bin
C7_Witness ==
    /\ pend # <<>>
    /\ pend[1].pc = "responded"
    /\ pend[1].request.op = "DELETE /api/bins/:id"
    /\ res = NoContent
    /\ req = pend[1].request
    /\ pend[1].request.id \notin DOMAIN bins
    /\ pend[1].itemsRead # Some(items)
    /\ Referencing(pend[1].bin.name) # {}

\* the same for a rename: it answered 200 with the new name while an item
\* references the old one
C7_WitnessRename ==
    /\ pend # <<>>
    /\ pend[1].pc = "responded"
    /\ pend[1].request.op = "PATCH /api/bins/:id"
    /\ res.status = 200
    /\ req = pend[1].request
    /\ res.body.name # pend[1].bin.name
    /\ Referencing(pend[1].bin.name) # {}

\* the rows an accepted file parses to, and the cell a row holds for a
\* canonical field
RowsOf(file) == ParsedDataOf[file].rows

\* the rows of a file whose cell for a canonical field is empty
RowsLacking(file, field) ==
    LET rows == RowsOf(file)
        headerMap == HeaderMapOf(rows[1].keys) IN
    {r \in DOMAIN rows : CellOf(rows[r], headerMap, field) = <<>>}

BeginsWith(s, prefix) ==
    /\ Len(s) >= Len(prefix)
    /\ SubSeq(s, 1, Len(prefix)) = prefix

RowPrefix(n) == <<"R", "o", "w", " ">> \o NatToString(n) \o <<":">>

UploadInProgress(file) ==
    /\ req' = Request("POST /api/items/upload", 0, file)
    /\ Upload(file)

\* C8: an upload that passes the empty-file and required-column checks, with
\* R parsed data rows, answers created + errors = R and errors = the length
\* of errorDetails, and the store grows by created items; when exactly one
\* row, the k-th, has an empty description and every other row is valid,
\* created = R-1, errors = 1 and errorDetails[0] begins with "Row k+1:".
C8_RowAccounting ==
    [][\A file \in UploadInputs :
        (UploadInProgress(file) /\ res'.status = 200) =>
            LET R == Len(RowsOf(file))
                out == res'.body
                noDescription == RowsLacking(file, "description")
                noBin == RowsLacking(file, "binLocation") IN
            /\ out.created + out.errors = R
            /\ out.errors = Len(out.errorDetails)
            /\ Cardinality(DOMAIN items')
                    = Cardinality(DOMAIN items) + out.created
            /\ (Cardinality(noDescription) = 1 /\ noBin \subseteq noDescription)
                    => /\ out.created = R - 1
                       /\ out.errors = 1
                       /\ \A k \in noDescription :
                            BeginsWith(out.errorDetails[1], RowPrefix(k + 1))]_vars

\* an upload of three data rows, the third without a description, has
\* answered created = 2, errors = 1 and "Row 4: ..."
C8_Witness ==
    /\ req.op = "POST /api/items/upload"
    /\ res.status = 200
    /\ res.body.created = 2
    /\ res.body.errors = 1
    /\ BeginsWith(res.body.errorDetails[1], RowPrefix(4))
    /\ Cardinality(DOMAIN items) = 2

\* the 1-indexed positions, in the uploaded file, of the rows the parser
\* keeps as data rows: lines of a delimited text, sheet rows of a workbook
FilePositions(file) ==
    IF IsCsvName(file)
    THEN LET raw == Split(file.buffer.text, "\n") IN
         Tail(Ascending({n \in DOMAIN raw : Trim(raw[n]) # <<>>}))
    ELSE LET jsonData == file.buffer.Sheets[WorksheetName(file.buffer)] IN
         Ascending({n \in (HeaderRowIndex(jsonData) + 2)..Len(jsonData) :
                        \E c \in DOMAIN jsonData[n] :
                            Trim(jsonData[n][c].text) # <<>>})

DigitValue(c) == (CHOOSE i \in DOMAIN DigitChars : DigitChars[i] = c) - 1

RECURSIVE StringToNat(_)
StringToNat(digits) ==
    IF digits = <<>> THEN 0
    ELSE 10 * StringToNat(SubSeq(digits, 1, Len(digits) - 1))
            + DigitValue(digits[Len(digits)])

\* the N of "Row N: ..."
CitedRow(error) ==
    StringToNat(SubSeq(error, 5, Min({i \in DOMAIN error : error[i] = ":"}) - 1))

\* C9: each row error "Row N: ..." cites the 1-indexed position of the
\* failing row in the uploaded file, header row counted, and errorDetails
\* lists the failing rows in file order.
C9_RowCitesFilePosition ==
    [][\A file \in UploadInputs :
        (UploadInProgress(file) /\ res'.status = 200) =>
            LET failing ==
                    Ascending(RowsLacking(file, "description")
                                \cup RowsLacking(file, "binLocation"))
                errorDetails == res'.body.errorDetails IN
            [i \in DOMAIN errorDetails |-> CitedRow(errorDetails[i])]
                = [i \in DOMAIN failing |-> FilePositions(file)[failing[i]]]]_vars

\* the required canonical fields for which no header of the file, once
\* normalised, is the normalised form of one of the field's aliases
RequiredFields == {"description", "binLocation"}

AliasesOf(field) ==
    UNION {Range(COLUMN_MAPPINGS[f].aliases) :
            f \in {g \in DOMAIN COLUMN_MAPPINGS :
                        COLUMN_MAPPINGS[g].field = field}}

LacksMatch(headers) ==
    {field \in RequiredFields :
        ~\E h \in Range(headers), alias \in AliasesOf(field) :
            NormalizeHeader(h) = NormalizeHeader(alias)}

\* the file passes the type, decode and empty-file checks
ReachesColumnCheck(file) ==
    /\ file # NoFile
    /\ FileFilter(file)
    /\ ~ParsedDataOf[file].threw
    /\ Len(RowsOf(file)) > 0

\* C10: an upload whose headers lack a match for a required canonical field
\* is rejected naming exactly the missing fields, without a call of
\* createMultipleItems and with the item store as it was; and every
\* rejected upload leaves the item and bin stores unchanged.
C10_RejectedUploadChangesNothing ==
    [][\A file \in UploadInputs : UploadInProgress(file) =>
        /\ res'.status # 200 =>
                /\ items' = items /\ bins' = bins
                /\ nextItemId' = nextItemId
                /\ UploadPlanOf[file].storeCalls = <<>>
        /\ (/\ ReachesColumnCheck(file)
            /\ LacksMatch(RowsOf(file)[1].keys) # {}) =>
                /\ res'.status = 400
                /\ Range(res'.body.details.missing)
                        = LacksMatch(RowsOf(file)[1].keys)
                /\ Len(res'.body.details.missing)
                        = Cardinality(LacksMatch(RowsOf(file)[1].keys))
                /\ UploadPlanOf[file].storeCalls = <<>>
                /\ items' = items]_vars

\* an upload into a store that holds items and a bin has been rejected for
\* the one missing column binLocation
C10_Witness ==
    /\ req.op = "POST /api/items/upload"
    /\ res.status = 400
    /\ "details" \in DOMAIN res.body
    /\ res.body.details.missing = <<"binLocation">>
    /\ DOMAIN items # {}
    /\ DOMAIN bins # {}

\* the file passes the type, decode, empty-file and required-column checks
PassesStructuralChecks(file) ==
    /\ ReachesColumnCheck(file)
    /\ LacksMatch(RowsOf(file)[1].keys) = {}

\* the rows of a file that hold a description and a bin location, in order
ValidRows(file) ==
    Ascending(DOMAIN RowsOf(file)
                \ (RowsLacking(file, "description")
                    \cup RowsLacking(file, "binLocation")))

\* C11: a row-level failure never aborts an import: an upload that passes
\* the structural checks processes every parsed row, calls
\* createMultipleItems exactly once, with exactly the rows that validated
\* (also when there are none), and answers 200 with success = true
\* whatever the number of failed rows.
C11_RowFailuresNeverAbort ==
    [][\A file \in UploadInputs :
        (UploadInProgress(file) /\ PassesStructuralChecks(file)) =>
            LET rows == RowsOf(file)
                valid == ValidRows(file)
                headerMap == HeaderMapOf(rows[1].keys)
                calls == UploadPlanOf[file].storeCalls IN
            /\ Len(calls) = 1
            /\ calls[1].op = "createMultipleItems"
            /\ Len(calls[1].items) = Len(valid)
            /\ \A k \in DOMAIN valid :
                /\ calls[1].items[k].description
                        = CellOf(rows[valid[k]], headerMap, "description")
                /\ calls[1].items[k].binLocation
                        = CellOf(rows[valid[k]], headerMap, "binLocation")
            /\ res'.status = 200
            /\ res'.body.success = TRUE
            /\ res'.body.created = Len(valid)
            /\ res'.body.errors = Len(rows) - Len(valid)]_vars

\* an upload whose two rows both failed has answered success = true with
\* created = 0
C11_Witness ==
    /\ req.op = "POST /api/items/upload"
    /\ res.status = 200
    /\ res.body.success = TRUE
    /\ res.body.created = 0
    /\ res.body.errors = 2
    /\ UploadPlanOf[req.body].storeCalls[1].items = <<>>

\* the file decodes to a header row without data rows
HeaderRowOnly(file) ==
    /\ file # NoFile
    /\ FileFilter(file)
    /\ ~ParsedDataOf[file].threw
    /\ Len(RowsOf(file)) = 0

\* C12: an upload whose parsed row sequence is empty is rejected as "empty
\* or invalid", with nothing created and no row errors; the empty check
\* comes before the required-column check, so the headers of the file do
\* not matter.
C12_EmptyFileRejectedFirst ==
    [][\A file \in UploadInputs :
        (UploadInProgress(file) /\ HeaderRowOnly(file)) =>
            /\ res' = FileEmptyOrInvalid
            /\ DOMAIN res'.body = {"message"}
            /\ UploadPlanOf[file].storeCalls = <<>>
            /\ UploadPlanOf[file].errors = <<>>
            /\ items' = items
            /\ nextItemId' = nextItemId]_vars

\* a delimited file that is the one header line name,x, which has no column
\* for binLocation, has been rejected as empty
C12_Witness ==
    /\ req.op = "POST /api/items/upload"
    /\ req.body # NoFile
    /\ req.body.buffer.kind = "text"
    /\ req.body.buffer.text = Line_name_x
    /\ res = FileEmptyOrInvalid

\* mapHeaders has returned for the file headers in req.body
MapHeadersReturned == req.op = "mapHeaders" /\ res # Called

\* the normalized form of a header or an alias: each character lower-cased,
\* the characters outside a-z and 0-9 (white space included) left out
NormalForm(text) ==
    LET lowered == [i \in DOMAIN text |-> ToLowerChar(text[i])]
        kept == Ascending({i \in DOMAIN text : lowered[i] \in AlphaNumeric}) IN
    [k \in DOMAIN kept |-> lowered[kept[k]]]

CanonicalFields == {COLUMN_MAPPINGS[f].field : f \in DOMAIN COLUMN_MAPPINGS}

\* a header supplies a field: its normal form is that of an alias of the field
Supplies(header, field) ==
    \E alias \in AliasesOf(field) : NormalForm(header) = NormalForm(alias)

\* C13: for every list of file headers, missing is exactly the set of
\* required canonical fields that no header supplies; it is empty exactly
\* when every required field has a matching header, and an optional field
\* is never in it.
C13_MissingIsUnmatchedRequired ==
    MapHeadersReturned =>
        LET missing == res.body.missing
            unmatched == {field \in RequiredFields :
                            \A i \in DOMAIN req.body :
                                ~Supplies(req.body[i], field)} IN
        /\ Range(missing) = unmatched
        /\ Len(missing) = Cardinality(unmatched)
        /\ (missing = <<>>) <=>
                \A field \in RequiredFields :
                    \E i \in DOMAIN req.body : Supplies(req.body[i], field)
        /\ Range(missing) \cap (CanonicalFields \ RequiredFields) = {}

\* headers that supply binLocation and the optional price but not
\* description: missing is description alone
C13_Witness ==
    /\ MapHeadersReturned
    /\ res.body.missing = <<"description">>
    /\ DOMAIN res.body.headerMap = {"binLocation", "price"}

\* C14: headers are matched on normalized forms only (lower-case, trim,
\* every character outside a-z0-9 deleted): a field is in headerMap exactly
\* when some file header supplies it, the value of headerMap is a header of
\* the file as it was written, and "Bin Location", "bin_location" and
\* "BIN-LOCATION" each map to binLocation.
C14_MatchOnNormalForms ==
    MapHeadersReturned =>
        LET headerMap == res.body.headerMap IN
        /\ DOMAIN headerMap \subseteq CanonicalFields
        /\ \A field \in CanonicalFields :
            /\ field \in DOMAIN headerMap <=>
                    \E i \in DOMAIN req.body : Supplies(req.body[i], field)
            /\ field \in DOMAIN headerMap =>
                    /\ headerMap[field] \in Range(req.body)
                    /\ Supplies(headerMap[field], field)
        /\ \A i \in DOMAIN req.body :
                req.body[i] \in {Header_BinLocation, Header_bin_location,
                                 Header_BIN_LOCATION}
                    => /\ "binLocation" \in DOMAIN headerMap
                       /\ NormalForm(headerMap.binLocation)
                            = NormalForm(req.body[i])

\* the one header BIN-LOCATION next to an unknown header: binLocation maps
\* to BIN-LOCATION as written
C14_Witness ==
    /\ MapHeadersReturned
    /\ Header_BIN_LOCATION \in Range(req.body)
    /\ Header_x \in Range(req.body)
    /\ res.body.headerMap.binLocation = Header_BIN_LOCATION

\* the declared aliases of a canonical field, in order
AliasListOf(field) ==
    COLUMN_MAPPINGS[CHOOSE f \in DOMAIN COLUMN_MAPPINGS :
                        COLUMN_MAPPINGS[f].field = field].aliases

\* C15: when several file headers could supply one canonical field, the
\* header taken is one that matches the earliest alias of the field's alias
\* list that any header matches, whatever the order of the columns: item
\* then description maps description to the header description.
C15_EarliestAliasWins ==
    MapHeadersReturned =>
        LET headerMap == res.body.headerMap IN
        /\ \A field \in DOMAIN headerMap :
            LET aliases == AliasListOf(field)
                matchedAliases ==
                    {a \in DOMAIN aliases :
                        \E i \in DOMAIN req.body :
                            NormalForm(req.body[i]) = NormalForm(aliases[a])} IN
            NormalForm(headerMap[field]) = NormalForm(aliases[Min(matchedAliases)])
        /\ req.body = <<Header_item, Header_description>>
                => headerMap.description = Header_description

\* the columns item, description in this order: description maps to the
\* second column
C15_Witness ==
    /\ MapHeadersReturned
    /\ req.body = <<Header_item, Header_description>>
    /\ res.body.headerMap.description = Header_description

\* parseCSV has returned for the text in req.body
ParseCSVReturned == req.op = "parseCSV" /\ res.status = 1

\* one layer of surrounding double quotes taken off a field that has one
StripSurroundingQuotes(field) ==
    IF Len(field) >= 2 /\ field[1] = "\"" /\ field[Len(field)] = "\""
    THEN SubSeq(field, 2, Len(field) - 1)
    ELSE field

\* the fields of a line: comma-split, trimmed, one layer of quotes stripped
FieldsOf(line) ==
    LET parts == Split(line, ",") IN
    [i \in DOMAIN parts |-> StripSurroundingQuotes(Trim(parts[i]))]

\* the records of a text: blank lines dropped, the first line left is the
\* header row, every later line a record keyed by the header fields
RecordsOf(text) ==
    LET lines == SelectSeq(Split(text, "\n"), LAMBDA line : Trim(line) # <<>>)
    IN IF lines = <<>> THEN <<>>
       ELSE [r \in 1..(Len(lines) - 1) |->
                RowObject(FieldsOf(lines[1]), FieldsOf(lines[r + 1]),
                          DOMAIN FieldsOf(lines[1]))]

\* C16: the delimited-text parser drops blank lines, takes the first
\* non-blank line as the header row, splits every line on commas and strips
\* exactly one layer of surrounding double quotes from a field, so a double
\* quote that is not the first or last character of a field stays in the
\* parsed value.
C16_OneLayerOfQuotesStripped ==
    ParseCSVReturned => res.body = RecordsOf(req.body)

\* parseSpreadsheet has returned the row objects of the sheet in req.body
ParseSheetReturned == req.op = "parseSpreadsheet" /\ res.status = 1

\* a row has at least two cells with text, the banner text not counted
LooksLikeHeaders(row) ==
    Cardinality({c \in DOMAIN row :
                    /\ CellText(row[c]) # <<>>
                    /\ CellText(row[c]) # Str_MasterInventory}) >= 2

\* the 0-based index of the header row: the lowest-indexed row among the
\* first min(5, rowCount) that looks like headers, row 0 without one
ChosenHeaderRow(jsonData) ==
    LET scanned == 1..Min({5, Len(jsonData)})
        qualifying == {n \in scanned : LooksLikeHeaders(jsonData[n])} IN
    IF qualifying = {} THEN 0
    ELSE (CHOOSE n \in qualifying : \A k \in qualifying : n <= k) - 1

C17_WitnessFallback ==
    /\ ParseSheetReturned
    /\ Len(req.body) = 6
    /\ \A n \in 1..5 : req.body[n] = Row_banner_x
    /\ req.body[6] = Row_item_bin
    /\ Len(res.body) = 5

\* the text of a cell's source value, trimmed
SourceText(cell) == Trim(cell.text)

\* the rows below the header row that have a cell with text, each as a
\* record of the texts of its cells
DataRecordsOf(jsonData) ==
    LET headerRow == jsonData[HeaderRowIndex(jsonData) + 1]
        headers == [c \in DOMAIN headerRow |-> CellText(headerRow[c])]
        below == SubSeq(jsonData, HeaderRowIndex(jsonData) + 2, Len(jsonData))
        kept == SelectSeq(below,
                    LAMBDA row : \E c \in DOMAIN row : SourceText(row[c]) # <<>>)
    IN [r \in DOMAIN kept |->
            RowObject(headers,
                      [c \in DOMAIN kept[r] |-> SourceText(kept[r][c])],
                      {c \in DOMAIN headers : headers[c] # <<>>})]

\* C18: every workbook data cell is emitted as the text of its source value
\* whatever its native type (the number 0 as "0", false as "false"), and a
\* data row is discarded only if every cell of it is empty after trimming
\* (a row whose only cell with a value is the number 0 is kept).
C18_CellsEmittedAsText ==
    (ParseSheetReturned /\ req.body # <<>>) =>
        res.body = DataRecordsOf(req.body)

\* the file's extension or declared content type is a supported one
Supported(file) ==
    \/ file.mimetype \in
        {"text/csv", "application/vnd.ms-excel",
         "application/vnd.openxmlformats-officedocument.spreadsheetml.sheet",
         "application/vnd.oasis.opendocument.spreadsheet"}
    \/ \E n \in 4..5 :
        /\ Len(file.originalname) >= n
        /\ ToLowerCase(SubSeq(file.originalname,
                              Len(file.originalname) - n + 1,
                              Len(file.originalname)))
            \in {<<".","c","s","v">>, <<".","x","l","s">>, <<".","o","d","t">>,
                 <<".","x","l","s","x">>}

\* the file is of the delimited-text variant by its name or declared type
DelimitedText(file) == IsCsvName(file) \/ file.mimetype = "text/csv"

\* C19: a file whose extension and declared content type are both
\* unsupported is rejected before any parsing, and an accepted file is
\* parsed by the variant its filename or declared content type implies: the
\* answer to an accepted text/csv upload is the answer for the records the
\* delimited-text parser gives for its bytes, also when its name does not
\* end in .csv.
C19_ParsedByImpliedVariant ==
    [][\A file \in UploadInputs \ {NoFile} :
        UploadInProgress(file) =>
            /\ ~Supported(file) =>
                    res' = FileRejected /\ items' = items
            /\ (Supported(file) /\ DelimitedText(file)) =>
                    LET records == ParseCSV(file.buffer.text) IN
                    IF records = <<>> THEN res' = FileEmptyOrInvalid
                    ELSE IF LacksMatch(records[1].keys) # {}
                    THEN res'.status = 400
                    ELSE /\ res'.status = 200
                         /\ res'.body.created + res'.body.errors
                                = Len(records)]_vars

\* the names Bin-0 ... Bin-30
DefaultNames == {Str_Bin \o NatToString(n) : n \in 0..30}

\* C20: a bin seed request is rejected, creating nothing, whenever a bin
\* exists; with no bin it creates exactly 31 bins named Bin-0 ... Bin-30
\* with pairwise distinct colors, Bin-0 colored #808080.  After a seed every
\* further seed is rejected while a bin remains, and the store never holds
\* two bins with the same default name.
C20_SeedOnce ==
    /\ [][SeedBins =>
            IF DOMAIN bins # {}
            THEN /\ res'.status = 400
                 /\ bins' = bins
                 /\ nextBinId' = nextBinId
            ELSE /\ res'.status = 201
                 /\ Cardinality(DOMAIN bins') = 31
                 /\ {bins'[b].name : b \in DOMAIN bins'} = DefaultNames
                 /\ Cardinality({bins'[b].color : b \in DOMAIN bins'}) = 31
                 /\ \A b \in DOMAIN bins' :
                        bins'[b].name = Str_Bin \o <<"0">>
                            => bins'[b].color = "#808080"]_vars
    /\ [](\A a, b \in DOMAIN bins :
            (a # b /\ bins[a].name \in DefaultNames)
                => bins[a].name # bins[b].name)

\* a seed refused after a seed and the removal of one of the seeded bins
C20_Witness ==
    /\ req.op = "POST /api/bins/seed"
    /\ res.status = 400
    /\ res.body.existingCount = 30
    /\ {bins[b].name : b \in DOMAIN bins} \subseteq DefaultNames

\* the items an export with the given filters is about
Exported(query) ==
    {id \in DOMAIN items :
        /\ query.bin # <<>> => items[id].binLocation = query.bin
        /\ query.category # <<>> =>
                /\ "category" \in DOMAIN items[id]
                /\ items[id].category = query.category}

GetAllBinsReturned == req.op = "getAllBins" /\ res.status = 1

\* the integer at the end of a name, None when the name ends otherwise
RECURSIVE TrailingDigits(_)
TrailingDigits(name) ==
    IF name = <<>> \/ name[Len(name)] \notin {DigitChars[i] : i \in 1..10}
    THEN <<>>
    ELSE TrailingDigits(SubSeq(name, 1, Len(name) - 1)) \o <<name[Len(name)]>>

TrailingInteger(name) ==
    IF TrailingDigits(name) = <<>> THEN None
    ELSE Some(StringToNat(TrailingDigits(name)))

\* a comes no later than b: by the integers at their ends when both have
\* one, by name otherwise
NoLater(a, b) ==
    IF TrailingInteger(a) # None /\ TrailingInteger(b) # None
    THEN TrailingInteger(a)[1] <= TrailingInteger(b)[1]
    ELSE LocaleCompare(a, b) <= 0

\* C22: getAllBins returns every bin exactly once, ordered by the integer
\* at the end of the name when there is one (Bin-2 before Bin-10) and by
\* name otherwise; the comparison is a consistent, transitive ordering for
\* every set of names, and both stores return the same order.
C22_BinsInOneOrder ==
    GetAllBinsReturned =>
        /\ Len(res.body.mem) = Len(req.body)
        /\ Range(res.body.mem) = Range(req.body)
        /\ \A r, s \in DOMAIN res.body.mem :
                r < s => NoLater(res.body.mem[r], res.body.mem[s])
        /\ \A i, j, k \in DOMAIN req.body :
                (MemCompareBins(req.body[i], req.body[j]) <= 0
                    /\ MemCompareBins(req.body[j], req.body[k]) <= 0)
                => MemCompareBins(req.body[i], req.body[k]) <= 0
        /\ res.body.db = res.body.mem

\* the items a step adds to the store
Added == DOMAIN items' \ DOMAIN items

\* C23: every item created through the item-create request or an import
\* starts with status = active, soldDate = null and soldPrice = null,
\* whatever the body supplies (in both stores), and an item reaches status
\* = sold only through the mark-as-sold operation.
C23_SoldOnlyByMarkAsSold ==
    [][/\ \A id \in Added :
            /\ items'[id].status = "active"
            /\ items'[id].soldDate = None
            /\ items'[id].soldPrice = None
       /\ \A body \in InsertOneBinInputs :
            (CreateItem(body) /\ InsertItemSchemaAccepts(body)) =>
                LET item == DbCreateItemRecord(InsertItemSchemaParse(body),
                                               nextItemId, now) IN
                /\ item.status = "active"
                /\ item.soldDate = None
                /\ item.soldPrice = None
       /\ \A id \in DOMAIN items \cap DOMAIN items' :
            (items[id].status # "sold" /\ items'[id].status = "sold")
                => req'.op = "PATCH /api/items/:id/sold"]_vars

\* C24: after any sequence of item create, item update and import requests
\* every stored item has a non-empty description and a non-empty
\* binLocation.
C24_RequiredTextsNonEmpty ==
    \A id \in DOMAIN items :
        /\ items[id].description # <<>>
        /\ items[id].binLocation # <<>>

\* C25: a bin update that does not change the name (name absent, or equal
\* to the current name) is never blocked by referencing items: for an
\* existing bin it succeeds however many items reference the bin, changes
\* only the supplied fields and updatedAt, and leaves the bin's id and name,
\* every other bin and every item unchanged.
C25_UpdateKeepingNameSucceeds ==
    [][\A id \in BinIdInputs, body \in RecolorInputs :
        (/\ UpdateBin(id, body)
         /\ id \in DOMAIN bins
         /\ "name" \in DOMAIN body => body.name = bins[id].name) =>
            /\ res'.status = 200
            /\ items' = items
            /\ DOMAIN bins' = DOMAIN bins
            /\ \A other \in DOMAIN bins \ {id} : bins'[other] = bins[other]
            /\ bins'[id].id = bins[id].id
            /\ bins'[id].name = bins[id].name
            /\ bins'[id].updatedAt = now
            /\ DOMAIN bins'[id] = DOMAIN bins[id]
            /\ \A key \in DOMAIN bins[id] \ {"updatedAt"} :
                    bins'[id][key] = IF key \in DOMAIN body THEN body[key]
                                     ELSE bins[id][key]]_vars

\* a color-only update answered 200 at a later instant than the creation of
\* the bin, while two items spell the bin's name in different case
C25_Witness ==
    /\ req.op = "PATCH /api/bins/:id"
    /\ req.body = [color |-> "#4ECDC4"]
    /\ res.status = 200
    /\ req.id \in DOMAIN bins
    /\ bins[req.id].color = "#4ECDC4"
    /\ bins[req.id].updatedAt > bins[req.id].createdAt
    /\ Cardinality(Referencing(bins[req.id].name)) = 2
    /\ \E i, j \in DOMAIN items : items[i].binLocation # items[j].binLocation

\* the file headers of the call are pairwise distinct
DistinctHeaders ==
    \A i, j \in DOMAIN req.body : i # j => req.body[i] # req.body[j]

\* C26: for every list of distinct file headers, (1) no file header is the
\* headerMap value of two canonical fields; (2) the headerMap values and
\* unmapped are disjoint and together are exactly the file headers, with
\* unmapped in file order, so a header that matches an alias but lost to an
\* earlier alias of its field is reported as unmapped.
C26_HeadersPartitioned ==
    (MapHeadersReturned /\ DistinctHeaders) =>
        LET headerMap == res.body.headerMap
            unmapped == res.body.unmapped
            taken == {headerMap[field] : field \in DOMAIN headerMap} IN
        /\ \A f, g \in DOMAIN headerMap :
                headerMap[f] = headerMap[g] => f = g
        /\ \A f, g \in CanonicalFields :
                f # g => {NormalForm(alias) : alias \in AliasesOf(f)}
                            \cap {NormalForm(alias) : alias \in AliasesOf(g)} = {}
        /\ taken \cap Range(unmapped) = {}
        /\ taken \cup Range(unmapped) = Range(req.body)
        /\ unmapped = SelectSeq(req.body, LAMBDA header : header \notin taken)
        /\ \A i \in DOMAIN req.body :
                (\E field \in DOMAIN headerMap :
                    /\ Supplies(req.body[i], field)
                    /\ headerMap[field] # req.body[i])
                => req.body[i] \in Range(unmapped)

\* item and description, in this order: description takes the header
\* description and the header item is unmapped
C26_Witness ==
    /\ MapHeadersReturned
    /\ req.body = <<Header_item, Header_description>>
    /\ res.body.headerMap.description = Header_description
    /\ res.body.unmapped = <<Header_item>>

(***************************************************************************)
(* getBinStats                                                             *)
(***************************************************************************)
\* getBinStats: binMap has one entry per distinct binLocation, keyed by the
\* string as the item spells it; the entry counts the items with that very
\* string and keeps their latest updatedAt.  The trailing sort reorders the
\* entries and changes none, so the entries are given as a set.
GetBinStats(its) ==
    LET Keyed(binLocation) ==
            {id \in DOMAIN its : its[id].binLocation = binLocation} IN
    {[binLocation |-> binLocation,
      itemCount |-> Cardinality(Keyed(binLocation)),
      lastUpdated |-> Max({its[id].updatedAt : id \in Keyed(binLocation)})] :
        binLocation \in {its[id].binLocation : id \in DOMAIN its}}

RECURSIVE SumOfItemCounts(_)
SumOfItemCounts(stats) ==
    IF stats = {} THEN 0
    ELSE LET stat == CHOOSE entry \in stats : TRUE IN
         stat.itemCount + SumOfItemCounts(stats \ {stat})

\* C27: in every store state, for every bin B, the entry getBinStats reports
\* under B's name counts exactly the items getItemsByBin(B.name) returns,
\* also when items spell the name in different case; and the itemCounts of
\* all entries sum to the number of items.
C27_StatsCountMatchesGuard ==
    LET binStats == GetBinStats(items) IN
    /\ \A b \in DOMAIN bins : \A stat \in binStats :
            stat.binLocation = bins[b].name =>
                stat.itemCount = Cardinality(GetItemsByBin(items, bins[b].name))
    /\ SumOfItemCounts(binStats) = Cardinality(DOMAIN items)

LookupReturned == req.op \in {"getItemsByBin", "getBinByName"} /\ res.status = 1

\* the positions of the stored texts that equal the argument without regard
\* to case
EqualIgnoringCase ==
    {i \in DOMAIN req.body.stored :
        ToLowerCase(req.body.stored[i]) = ToLowerCase(req.body.argument)}

\* C28: for the same store contents and the same argument, getItemsByBin and
\* getBinByName return the same records from MemStorage and from
\* DatabaseStorage, namely exactly the records whose binLocation (name)
\* equals the argument without regard to case, also when the argument
\* contains '%', '_' or a backslash.
C28_LookupsAgree ==
    LookupReturned =>
        /\ res.body.mem = res.body.db
        /\ ~res.body.db.thrown
        /\ req.op = "getItemsByBin" => res.body.db.value = EqualIgnoringCase
        /\ req.op = "getBinByName" =>
                /\ Range(res.body.db.value) \subseteq EqualIgnoringCase
                /\ res.body.db.value = None <=> EqualIgnoringCase = {}

\* C29: a successful upload only adds items: every item that existed before
\* the request is unchanged afterwards, the bins are unchanged (no bin is
\* created for a binLocation that names no bin), and the number of items in
\* the store grows by exactly the created count of the answer.
C29_UploadOnlyAdds ==
    [][\A file \in UploadInputs :
        (UploadInProgress(file) /\ res'.status = 200) =>
            /\ \A id \in DOMAIN items :
                    id \in DOMAIN items' /\ items'[id] = items[id]
            /\ bins' = bins
            /\ Cardinality(DOMAIN items')
                    = Cardinality(DOMAIN items) + res'.body.created]_vars

\* an upload of two rows into a store that held the bin Bin-1 and an item in
\* it has answered created = 2; the two new items are in B, which names no
\* bin, and the earlier item is still there
C29_Witness ==
    /\ req.op = "POST /api/items/upload"
    /\ res.status = 200
    /\ res.body.created = 2
    /\ DOMAIN items = {1, 2, 3}
    /\ items[1].binLocation = Str_Bin \o <<"1">>
    /\ items[2].binLocation = <<"B">>
    /\ items[3].binLocation = <<"B">>
    /\ GetBinByName(bins, <<"B">>) = {}
    /\ GetBinByName(bins, Str_Bin \o <<"1">>) # {}

=============================================================================
